---- MODULE Spec2Model ----
(***************************************************************************)
(* Reference resolution and migration pipeline of the Production scripts.  *)
(*                                                                         *)
(* A cell of a table is a string, modelled as a sequence of one-character  *)
(* strings, so that str.strip(), str.lower(), str.upper() and the [:15]    *)
(* slice are computed character by character.  The 18-character ids and    *)
(* the record-type names of the scripts are written over a small alphabet  *)
(* (the spelling of a constant is irrelevant to the code, only equality    *)
(* after normalisation is).                                                *)
(*                                                                         *)
(* Two specifications:                                                     *)
(*   LookupSpec  loads a lookup file and resolves raw values against it    *)
(*               (load_simple_lookup, load_recordtypeid_lookup,            *)
(*               load_user_lookup of the UAT account job);                 *)
(*   Spec        runs one chunked job over a source file, one audited      *)
(*               field at a time (the field handlers of the mapping and    *)
(*               audit scripts).                                           *)
(***************************************************************************)
EXTENDS Integers, Sequences, FiniteSets, TLC

VARIABLES
    \* ---- LookupSpec ----
    lpc,          \* "start" | "loaded" | "resolved"
    lkind,        \* which loader ran: "none" | "simple" | "recordtype" | "user"
    lfile,        \* the lookup source as loaded (rows in source order)
    ldict,        \* the dictionaries the loader built
    lquery,       \* the raw value last resolved
    lresult,      \* what the resolver returned for it
    \* ---- Spec (chunked job) ----
    pc,           \* "idle" | "run" | "done" | "error"
    job,          \* the script that runs
    field,        \* the field of the script the run is followed for
    columns,      \* columns present in the source file besides the field
    table,        \* the field's lookup dictionary (built before the loop)
    chunkSize,    \* CHUNK_SIZE of the run
    consumed,     \* source rows read so far, in file order
    eof,          \* the reader has returned its last (short) chunk
    out,          \* the field's column of the main output, one cell per row
    header_written,
    headers,      \* number of header rows in the main output
    unmapped,     \* the field's unmapped detail: <<record id, original value>>
    blanked,      \* the field's blanked-by-recordtype detail
    stats,        \* the field's audit accumulator
    lookup_columns,  \* the lookup source has its key and value columns
    lines,        \* the lines of the main output file, in file order
    unmapped_file,   \* the field's unmapped detail file: "stale" | "written"
    held,         \* source rows in working state (the chunk, and whatever is kept)
    \* ---- SplitSpec / ValidateSpec (split_csv, validate_data) ----
    spc,          \* "idle" | "loop" | "sized" | "done" | "given" | "validated"
    split_df,     \* the cleaned data frame (df of split_csv): its rows in order
    max_rows,     \* rows a part may hold
    max_allowed_size,   \* size a part file may have
    start,        \* split_csv: first row (0-based) of the part being written
    end,          \* split_csv: row after the last row of the part being written
    part,         \* split_csv: number of the part being written
    files,        \* the csv files of the split directory, part number -> rows
    size_mb,      \* size of the file last written
    passes,       \* passes of the size-shrinking loop made so far
    report,       \* what validate_data printed
    \* ---- FrameSpec (the whole rows of a chunk) ----
    fpc,          \* "idle" | "start" | "mapped" | "cleaned"
    fjob,         \* the mapping script
    fin,          \* the chunk as read: a sequence of rows, column -> cell
    fout,         \* the chunk as written (with the unmapped lists) by the script
    forder,       \* an order of the script's field policies
    falt          \* the chunk and the unmapped lists with the policies applied in forder

lvars == <<lpc, lkind, lfile, ldict, lquery, lresult>>
pvars == <<pc, job, field, columns, table, chunkSize, consumed, eof, out,
           header_written, headers, unmapped, blanked, stats,
           lookup_columns, lines, unmapped_file, held>>
svars == <<spc, split_df, max_rows, max_allowed_size, start, end, part, files, size_mb,
           passes, report>>
fvars == <<fpc, fjob, fin, fout, forder, falt>>
xvars == <<spc, split_df, max_rows, max_allowed_size, start, end, part, files, size_mb,
           passes, report, fpc, fjob, fin, fout, forder, falt>>
vars == <<lpc, lkind, lfile, ldict, lquery, lresult,
          pc, job, field, columns, table, chunkSize, consumed, eof, out,
          header_written, headers, unmapped, blanked, stats,
          lookup_columns, lines, unmapped_file, held,
          spc, split_df, max_rows, max_allowed_size, start, end, part, files, size_mb,
          passes, report, fpc, fjob, fin, fout, forder, falt>>

(***************************************************************************)
(* Bounds of the model.                                                    *)
(***************************************************************************)
MaxLkpRows == 2      \* rows of a lookup file
MaxRows == 3         \* rows of a source file
MaxGatedRows == 2    \* rows of a source file, for a field with a record-type column
MaxChunk == 2        \* largest CHUNK_SIZE tried

(***************************************************************************)
(* Strings.                                                                *)
(***************************************************************************)
EMPTY == << >>

toLower == ("A" :> "a") @@ ("B" :> "b") @@ ("R" :> "r") @@ ("U" :> "u") @@
           ("V" :> "v") @@ ("X" :> "x") @@ ("Y" :> "y")
toUpper == ("a" :> "A") @@ ("b" :> "B") @@ ("r" :> "R") @@ ("u" :> "U") @@
           ("v" :> "V") @@ ("x" :> "X") @@ ("y" :> "Y")

\* str.lower()
lower(s) == [i \in 1..Len(s) |-> IF s[i] \in DOMAIN toLower THEN toLower[s[i]] ELSE s[i]]
\* str.upper()
upper(s) == [i \in 1..Len(s) |-> IF s[i] \in DOMAIN toUpper THEN toUpper[s[i]] ELSE s[i]]

RECURSIVE lstrip(_)
lstrip(s) == IF s # EMPTY /\ Head(s) = " " THEN lstrip(Tail(s)) ELSE s
RECURSIVE rstrip(_)
rstrip(s) == IF s # EMPTY /\ s[Len(s)] = " " THEN rstrip(SubSeq(s, 1, Len(s) - 1)) ELSE s
\* str.strip()
strip(s) == rstrip(lstrip(s))

\* s[:n]
slice(s, n) == IF Len(s) <= n THEN s ELSE SubSeq(s, 1, n)

\* the key-width of the 15-character variant
PREFIX_LEN == 15

(***************************************************************************)
(* Python dictionaries.                                                    *)
(***************************************************************************)
EmptyDict == [k \in {} |-> EMPTY]
\* a dictionary whose first entry for a key stays
dict_put_keep_first(d, k, v) ==
    [x \in (DOMAIN d) \cup {k} |-> IF x \in DOMAIN d THEN d[x] ELSE v]
dict_put(d, k, v) == [x \in (DOMAIN d) \cup {k} |-> IF x = k THEN v ELSE d[x]]
dict_get(d, k, default) == IF k \in DOMAIN d THEN d[k] ELSE default

(***************************************************************************)
(* load_simple_lookup: {strip(k).lower()[:15]?: strip(v) for k, v in rows  *)
(* if strip(k)}, rows taken in source order.                               *)
(***************************************************************************)
lookup_key(raw, use_15char) ==
    IF use_15char THEN slice(lower(strip(raw)), PREFIX_LEN) ELSE lower(strip(raw))

RECURSIVE load_rows(_, _, _)
load_rows(d, rows, use_15char) ==
    IF rows = << >> THEN d
    ELSE LET r == Head(rows)
             d2 == IF strip(r.k) # EMPTY
                   THEN dict_put(d, lookup_key(r.k, use_15char), strip(r.v))
                   ELSE d
         IN load_rows(d2, Tail(rows), use_15char)

load_simple_lookup(rows, use_15char) == load_rows(EmptyDict, rows, use_15char)

\* a resolution that always asks for the whole normalised value
resolve_full_key(d, val, use_15char) ==
    IF strip(val) # EMPTY THEN dict_get(d, lower(strip(val)), EMPTY) ELSE EMPTY
\* lambda val: d.get(str(val).strip().lower()[:15]?, "") if str(val).strip() else ""
resolve(d, val, use_15char) ==
    IF strip(val) # EMPTY THEN dict_get(d, lookup_key(val, use_15char), EMPTY) ELSE EMPTY

(***************************************************************************)
(* RecordTypeId: source Id -> DeveloperName -> destination Id              *)
(* (Source and Destination sheets of the RecordTypeId workbook).           *)
(***************************************************************************)
NONE == <<"None">>

\* the two dictionaries load_recordtypeid_lookup builds from the sheets
load_recordtypeid_lookup(source_rows, dest_rows) ==
    [source_to_devname |-> load_rows(EmptyDict, source_rows, FALSE),
     devname_to_dest |-> load_rows(EmptyDict, dest_rows, FALSE)]

\* the closure map_recordtypeid; hop2 records whether devname_to_dest was read
\* a chain whose second hop is tried with the source id when the first hop misses
map_recordtypeid_second_hop_anyway(d, source_id) ==
    LET source_id_clean == strip(source_id)
        dev_name == dict_get(d.source_to_devname, lower(source_id_clean), source_id_clean)
        dest_id == dict_get(d.devname_to_dest, lower(dev_name), EMPTY)
    IN IF source_id_clean = EMPTY THEN [val |-> EMPTY, hop2 |-> FALSE]
       ELSE IF dev_name = EMPTY THEN [val |-> NONE, hop2 |-> FALSE]
       ELSE IF dest_id = EMPTY THEN [val |-> NONE, hop2 |-> TRUE]
       ELSE [val |-> dest_id, hop2 |-> TRUE]
map_recordtypeid(d, source_id) ==
    LET source_id_clean == strip(source_id)
        dev_name == dict_get(d.source_to_devname, lower(source_id_clean), EMPTY)
        dest_id == dict_get(d.devname_to_dest, lower(dev_name), EMPTY)
    IN IF source_id_clean = EMPTY THEN [val |-> EMPTY, hop2 |-> FALSE]
       ELSE IF dev_name = EMPTY THEN [val |-> NONE, hop2 |-> FALSE]
       ELSE IF dest_id = EMPTY THEN [val |-> NONE, hop2 |-> TRUE]
       ELSE [val |-> dest_id, hop2 |-> TRUE]

\* apply_recordtypeid_mapping of the Opportunity mapping job
apply_recordtypeid_mapping(d, val) ==
    LET val_clean == strip(val)
        result == map_recordtypeid(d, val_clean)
    IN IF val_clean = EMPTY THEN [val |-> EMPTY, hop2 |-> FALSE]
       ELSE IF result.val = NONE THEN [val |-> EMPTY, hop2 |-> result.hop2]
       ELSE result

\* the Opportunity audit's direct dictionary source Id -> destination Id
result_dict(d) ==
    LET hit == {source_id \in DOMAIN d.source_to_devname :
                  /\ d.source_to_devname[source_id] # EMPTY
                  /\ dict_get(d.devname_to_dest,
                              lower(d.source_to_devname[source_id]), EMPTY) # EMPTY}
    IN [source_id \in hit |->
          d.devname_to_dest[lower(d.source_to_devname[source_id])]]

(***************************************************************************)
(* load_user_lookup of the UAT account job: the Global-ID chain and the    *)
(* (email, name) composite key.                                            *)
(***************************************************************************)
RECURSIVE load_pairs(_, _)
load_pairs(d, rows) ==
    IF rows = << >> THEN d
    ELSE LET r == Head(rows)
             d2 == IF strip(r.digital_Email) # EMPTY /\ strip(r.digital_Name) # EMPTY
                   THEN dict_put(d, <<lower(strip(r.digital_Email)),
                                      lower(strip(r.digital_Name))>>, strip(r.merge_Id))
                   ELSE d
         IN load_pairs(d2, Tail(rows))

RECURSIVE load_email_names(_, _)
load_email_names(d, rows) ==
    IF rows = << >> THEN d
    ELSE LET r == Head(rows)
             d2 == IF strip(r.digital_prod_Id) # EMPTY
                   THEN dict_put(d, lower(strip(r.digital_prod_Id)),
                                 <<lower(strip(r.digital_Email)),
                                   lower(strip(r.digital_Name))>>)
                   ELSE d
         IN load_email_names(d2, Tail(rows))

project(rows, kcol, vcol) == [i \in 1..Len(rows) |-> [k |-> rows[i][kcol], v |-> rows[i][vcol]]]

load_user_lookup(rows) ==
    [dict_digital_to_global |->
         load_rows(EmptyDict, project(rows, "digital_prod_Id", "digital_Global_ID__c"), FALSE),
     dict_global_to_merge |->
         load_rows(EmptyDict, project(rows, "merge_Global_ID__c", "merge_Id"), FALSE),
     dict_email_name_to_merge |-> load_pairs(EmptyDict, rows),
     dict_digital_to_email_name |-> load_email_names(EmptyDict, rows)]

\* the closure map_user_id; step records where it returned
map_user_id(d, digital_prod_id) ==
    LET digital_prod_id_lc == lower(strip(digital_prod_id))
        digital_global_id == lower(dict_get(d.dict_digital_to_global, digital_prod_id_lc, EMPTY))
        email_name == dict_get(d.dict_digital_to_email_name, digital_prod_id_lc, NONE)
        mapped == dict_get(d.dict_email_name_to_merge, email_name, EMPTY)
    IN IF strip(digital_prod_id) = EMPTY THEN [val |-> EMPTY, step |-> "blank"]
       ELSE IF digital_global_id # EMPTY /\ digital_global_id \in DOMAIN d.dict_global_to_merge
            THEN [val |-> d.dict_global_to_merge[digital_global_id], step |-> "chain"]
       ELSE IF email_name # NONE /\ mapped # EMPTY
            THEN [val |-> mapped, step |-> "fallback"]
       ELSE [val |-> EMPTY, step |-> "none"]

(***************************************************************************)
(* LookupSpec: load one lookup source, then resolve one raw value.         *)
(***************************************************************************)
SeqsUpTo(S, n) == UNION {[1..m -> S] : m \in 0..n}

rep(c, n) == [i \in 1..n |-> c]
LongKeyX == rep("a", PREFIX_LEN) \o <<"x">>     \* two ids equal on the prefix,
LongKeyY == rep("A", PREFIX_LEN) \o <<"y">>     \* different beyond it

KeyCells == {EMPTY, <<" ">>, <<"a">>, <<" ", "A">>, <<"b">>, LongKeyX, LongKeyY}
ValCells == {EMPTY, <<"x">>, <<" ", "y">>}
SimpleRows == [k : KeyCells, v : ValCells]
LongKeyPadded == <<" ">> \o upper(LongKeyX) \o <<" ">>                  \* an id as typed
ShortKeyPadded == <<" ">> \o slice(upper(LongKeyX), PREFIX_LEN) \o <<" ">>
SimpleQueries ==
    KeyCells \cup {<<"A", " ">>, slice(LongKeyX, PREFIX_LEN), LongKeyPadded, ShortKeyPadded}

SourceSheetRows == [k : {<<"a">>, <<"A", " ">>}, v : {EMPTY, <<"r">>, <<"a">>}]
DestSheetRows == [k : {<<"R">>, <<"a">>}, v : {EMPTY, <<"x">>}]
RecordTypeQueries == {EMPTY, <<"a">>, <<" ", "A">>, <<"b">>}

UserRow(p, g, mg, m, e, n) ==
    [digital_prod_Id |-> p, digital_Global_ID__c |-> g, merge_Global_ID__c |-> mg,
     merge_Id |-> m, digital_Email |-> e, digital_Name |-> n]
UserRows ==
    { UserRow(<<"a">>, <<"u">>, <<"U">>, <<"x">>, <<"b">>, <<"r">>),   \* chain and composite
      UserRow(<<"a">>, <<"u">>, <<"u">>, EMPTY, <<"b">>, <<"r">>),     \* chain hits an empty merge_Id
      UserRow(<<"A">>, EMPTY, EMPTY, <<"y">>, <<"B">>, <<"R">>),       \* composite only
      UserRow(<<"b">>, <<"v">>, <<"u">>, <<"x">>, EMPTY, <<"r">>),     \* first hop leads nowhere
      UserRow(EMPTY, EMPTY, <<"v">>, <<"y">>, <<"b">>, <<"r">>) }      \* merge side only
UserQueries == {EMPTY, <<"a">>, <<" ", "A">>, <<"b">>, <<"r">>}

SplitIdle ==
    /\ spc = "idle" /\ split_df = << >> /\ max_rows = 1 /\ max_allowed_size = 1
    /\ start = 0 /\ end = 0 /\ part = 1 /\ files = << >> /\ size_mb = 0
    /\ passes = 0 /\ report = << >>
FrameIdle ==
    /\ fpc = "idle" /\ fjob = "none" /\ fin = << >> /\ fout = << >>
    /\ forder = << >> /\ falt = << >>

PipelineIdle ==
    /\ pc = "idle" /\ job = "none" /\ field = "none" /\ columns = {} /\ table = EmptyDict
    /\ chunkSize = 0 /\ consumed = << >> /\ eof = FALSE /\ out = << >>
    /\ header_written = FALSE /\ headers = 0 /\ unmapped = << >>
    /\ blanked = << >> /\ stats = << >>
    /\ lookup_columns = TRUE /\ lines = << >> /\ unmapped_file = "stale" /\ held = 0

LookupInit ==
    /\ lpc = "start" /\ lkind = "none" /\ lfile = << >> /\ ldict = EmptyDict
    /\ lquery = EMPTY /\ lresult = EMPTY
    /\ PipelineIdle /\ SplitIdle /\ FrameIdle

LoadSimple ==
    /\ lpc = "start"
    /\ \E use_15char \in BOOLEAN, rows \in SeqsUpTo(SimpleRows, MaxLkpRows) :
          /\ lfile' = [rows |-> rows, use_15char |-> use_15char]
          /\ ldict' = load_simple_lookup(rows, use_15char)
    /\ lkind' = "simple" /\ lpc' = "loaded"
    /\ UNCHANGED <<lquery, lresult>> /\ UNCHANGED <<pvars, xvars>>

ResolveSimple ==
    /\ lpc = "loaded" /\ lkind = "simple"
    /\ \E raw \in SimpleQueries :
          /\ lquery' = raw
          /\ lresult' = resolve(ldict, raw, lfile.use_15char)
    /\ lpc' = "resolved"
    /\ UNCHANGED <<lkind, lfile, ldict>> /\ UNCHANGED <<pvars, xvars>>

LoadRecordType ==
    /\ lpc = "start"
    /\ \E source_rows \in SeqsUpTo(SourceSheetRows, MaxLkpRows),
          dest_rows \in SeqsUpTo(DestSheetRows, MaxLkpRows) :
          /\ lfile' = [Source |-> source_rows, Destination |-> dest_rows]
          /\ ldict' = load_recordtypeid_lookup(source_rows, dest_rows)
    /\ lkind' = "recordtype" /\ lpc' = "loaded"
    /\ UNCHANGED <<lquery, lresult>> /\ UNCHANGED <<pvars, xvars>>

\* the Opportunity mapping job resolves through the closure, the Opportunity
\* audit through the composite dictionary
ResolveRecordType ==
    /\ lpc = "loaded" /\ lkind = "recordtype"
    /\ \E raw \in RecordTypeQueries :
          /\ lquery' = raw
          /\ lresult' = LET r == apply_recordtypeid_mapping(ldict, raw)
                        IN [val |-> r.val, hop2 |-> r.hop2,
                            audit |-> IF strip(raw) = EMPTY THEN EMPTY
                                      ELSE dict_get(result_dict(ldict),
                                                    lower(strip(raw)), EMPTY)]
    /\ lpc' = "resolved"
    /\ UNCHANGED <<lkind, lfile, ldict>> /\ UNCHANGED <<pvars, xvars>>

LoadUser ==
    /\ lpc = "start"
    /\ \E rows \in SeqsUpTo(UserRows, MaxLkpRows) :
          /\ lfile' = rows
          /\ ldict' = load_user_lookup(rows)
    /\ lkind' = "user" /\ lpc' = "loaded"
    /\ UNCHANGED <<lquery, lresult>> /\ UNCHANGED <<pvars, xvars>>

ResolveUser ==
    /\ lpc = "loaded" /\ lkind = "user"
    /\ \E raw \in UserQueries :
          /\ lquery' = raw
          /\ lresult' = map_user_id(ldict, raw)
    /\ lpc' = "resolved"
    /\ UNCHANGED <<lkind, lfile, ldict>> /\ UNCHANGED <<pvars, xvars>>

\* raw keys for the key expression alone: padded, mixed case, inner whitespace,
\* and a whitespace that sits on the last position the prefix keeps
InnerBlankAtCut == rep("a", PREFIX_LEN - 1) \o <<" ", "b">>
RawKeys == {EMPTY, <<" ">>, <<" ", "A", " ">>, <<"A", " ", "b">>, <<" ", "a", " ", "B", " ">>,
            LongKeyX, LongKeyPadded, ShortKeyPadded, InnerBlankAtCut}

\* the key expression str(k).strip().lower()[:15]? applied to a raw cell
NormalizeKey ==
    /\ lpc = "start"
    /\ \E use_15char \in BOOLEAN, raw \in RawKeys :
          /\ lfile' = [use_15char |-> use_15char]
          /\ lquery' = raw
          /\ lresult' = lookup_key(raw, use_15char)
    /\ lkind' = "key" /\ lpc' = "loaded"
    /\ UNCHANGED ldict /\ UNCHANGED <<pvars, xvars>>

\* the same expression applied to the key it produced (a key read back as a cell)
NormalizeAgain ==
    /\ lpc = "loaded" /\ lkind = "key"
    /\ lresult' = [once |-> lresult, twice |-> lookup_key(lresult, lfile.use_15char)]
    /\ lpc' = "resolved"
    /\ UNCHANGED <<lkind, lfile, ldict, lquery>> /\ UNCHANGED <<pvars, xvars>>

LookupNext ==
    \/ LoadSimple \/ ResolveSimple
    \/ LoadRecordType \/ ResolveRecordType
    \/ LoadUser \/ ResolveUser
    \/ NormalizeKey \/ NormalizeAgain

LookupSpec == LookupInit /\ [][LookupNext]_vars

(***************************************************************************)
(* Properties of the lookup tables (LookupSpec).                           *)
(***************************************************************************)
KeyedRows(rows) == {i \in 1..Len(rows) : strip(rows[i].k) # EMPTY}
SameKey(rows, i, use_15char) ==
    {j \in KeyedRows(rows) :
        lookup_key(rows[j].k, use_15char) = lookup_key(rows[i].k, use_15char)}
LastOf(S) == CHOOSE j \in S : \A m \in S : m <= j

\* C10: when several rows of a lookup source have keys that normalise to the same
\* key (case, surrounding whitespace, or characters beyond the prefix length), the
\* built table maps the key to the trimmed value of the last such row in source
\* order, and the table has exactly the normalised keys of the rows with a key.
C10_LastWriteWins ==
    lkind = "simple" =>
        LET rows == lfile.rows
            u == lfile.use_15char
        IN /\ DOMAIN ldict = {lookup_key(rows[i].k, u) : i \in KeyedRows(rows)}
           /\ \A i \in KeyedRows(rows) :
                 ldict[lookup_key(rows[i].k, u)] = strip(rows[LastOf(SameKey(rows, i, u))].v)

\* C10 happens: two rows whose keys differ only beyond the prefix and in case, with
\* different values, and a resolution that returns the second row's trimmed value
C10_Witness ==
    /\ lkind = "simple" /\ lpc = "resolved"
    /\ lfile.use_15char
    /\ lfile.rows = << [k |-> LongKeyX, v |-> <<"x">>], [k |-> LongKeyY, v |-> <<" ", "y">>] >>
    /\ lquery = LongKeyX
    /\ lresult = <<"y">>

FirstHop == dict_get(ldict.source_to_devname, lower(strip(lquery)), EMPTY)
GlobalId == lower(dict_get(ldict.dict_digital_to_global, lower(strip(lquery)), EMPTY))

\* C8: a two-hop resolution yields nothing from the chain when the first hop finds
\* no entry or an empty intermediate value, and then the second table is not
\* consulted; it yields the second table's value only when both hops hit.  Holds
\* for the RecordTypeId closure, the audit's composite dictionary and the chained
\* route of the UAT user resolution.
C8_ChainShortCircuit ==
    /\ (lkind = "recordtype" /\ lpc = "resolved") =>
          /\ FirstHop = EMPTY =>
                lresult.val = EMPTY /\ ~lresult.hop2 /\ lresult.audit = EMPTY
          /\ lresult.val # EMPTY =>
                /\ FirstHop # EMPTY
                /\ lower(FirstHop) \in DOMAIN ldict.devname_to_dest
                /\ lresult.val = ldict.devname_to_dest[lower(FirstHop)]
          /\ lresult.audit = lresult.val
    /\ (lkind = "user" /\ lpc = "resolved") =>
          /\ GlobalId = EMPTY => lresult.step # "chain"
          /\ lresult.step = "chain" =>
                /\ GlobalId \in DOMAIN ldict.dict_global_to_merge
                /\ lresult.val = ldict.dict_global_to_merge[GlobalId]

\* C8 happens: the first hop misses although the second table has an entry for the
\* very id that was asked for, and the resolution is empty
C8_Witness ==
    /\ lkind = "recordtype" /\ lpc = "resolved"
    /\ strip(lquery) # EMPTY
    /\ FirstHop = EMPTY
    /\ dict_get(ldict.devname_to_dest, lower(strip(lquery)), EMPTY) # EMPTY
    /\ lresult.val = EMPTY

\* the two routes of the UAT user resolution, each taken alone
ChainedRoute ==
    IF GlobalId # EMPTY THEN dict_get(ldict.dict_global_to_merge, GlobalId, EMPTY) ELSE EMPTY
CompositeRoute ==
    LET email_name == dict_get(ldict.dict_digital_to_email_name, lower(strip(lquery)), NONE)
    IN IF email_name = NONE THEN EMPTY
       ELSE dict_get(ldict.dict_email_name_to_merge, email_name, EMPTY)

\* C9: map_user_id returns the result of the first route that yields a non-empty
\* value: the chained result when it is non-empty, the composite result when the
\* chained route yields empty, and empty only when both yield empty.
C9_FallbackOrdering ==
    (lkind = "user" /\ lpc = "resolved" /\ strip(lquery) # EMPTY) =>
        lresult.val = IF ChainedRoute # EMPTY THEN ChainedRoute ELSE CompositeRoute

\* C9's failing case: the chain ends in an entry whose merge_Id is empty while
\* the composite route has a match
C9_EmptyChainHit ==
    /\ lkind = "user" /\ lpc = "resolved"
    /\ GlobalId \in DOMAIN ldict.dict_global_to_merge
    /\ ChainedRoute = EMPTY /\ CompositeRoute # EMPTY
    /\ lresult.val = EMPTY

\* the two forms of an id: all of it, and its first PREFIX_LEN characters
FullForm(raw) == lower(strip(raw))
ShortForm(raw) == slice(lower(strip(raw)), PREFIX_LEN)
LongKeyRows(rows) == {i \in KeyedRows(rows) : Len(strip(rows[i].k)) > PREFIX_LEN}
SamePrefix(rows, i) == {j \in KeyedRows(rows) : ShortForm(rows[j].k) = ShortForm(rows[i].k)}

\* C11: with prefix length 15, the entry built from a key longer than the prefix is
\* found by resolving the whole key or its 15-character prefix, in any letter case
\* and with surrounding whitespace: the resolution returns the entry's value, and
\* every other spelling of the two forms resolves to the same value.
C11_PrefixEquivalence ==
    (lkind = "simple" /\ lpc = "resolved" /\ lfile.use_15char) =>
        \A i \in LongKeyRows(lfile.rows) :
           FullForm(lquery) \in {FullForm(lfile.rows[i].k), ShortForm(lfile.rows[i].k)} =>
              /\ lresult = strip(lfile.rows[LastOf(SamePrefix(lfile.rows, i))].v)
              /\ \A q \in SimpleQueries :
                    FullForm(q) \in {FullForm(lfile.rows[i].k), ShortForm(lfile.rows[i].k)} =>
                       resolve(ldict, q, TRUE) = lresult

\* C11 happens: the only entry is built from a long key; its upper-case, padded
\* prefix resolves to the entry's value, and so does the upper-case, padded whole key
C11_Witness ==
    /\ lkind = "simple" /\ lpc = "resolved" /\ lfile.use_15char
    /\ lfile.rows = << [k |-> LongKeyX, v |-> <<"x">>] >>
    /\ lquery = ShortKeyPadded
    /\ lresult = <<"x">>
    /\ resolve(ldict, LongKeyPadded, TRUE) = <<"x">>

\* C12: normalisation (trim, lower-case, then the optional cut to the first 15
\* characters) is idempotent: normalising a normalised key with the same prefix
\* length returns it unchanged, for every input string, inner whitespace included.
C12_NormalizeIdempotent ==
    (lkind = "key" /\ lpc = "resolved") => lresult.twice = lresult.once

\* C12 where the cut cannot end on a whitespace: without the cut, or when the
\* trimmed input has no whitespace on position 15 or is no longer than the prefix
C12_NormalizeIdempotentNoBlankAtCut ==
    (/\ lkind = "key" /\ lpc = "resolved"
     /\ \/ ~lfile.use_15char
        \/ Len(strip(lquery)) <= PREFIX_LEN
        \/ strip(lquery)[PREFIX_LEN] # " ")
    => lresult.twice = lresult.once

\* C12's failing case: the cut leaves a key that ends in a whitespace, and the
\* second normalisation trims it
C12_TrailingBlankAfterCut ==
    /\ lkind = "key" /\ lpc = "resolved" /\ lfile.use_15char
    /\ lquery = InnerBlankAtCut
    /\ lresult.once = rep("a", PREFIX_LEN - 1) \o <<" ">>
    /\ lresult.twice = rep("a", PREFIX_LEN - 1)

\* Case Surveys, 15-character variant, Recipient_Contact__c: the audit resolves the
\* value through the contact lookup keyed by 15-character prefixes, the mapping job
\* through the contact lookup keyed by whole ids (both loaded from the same file)
RecipientAuditHit ==
    resolve(load_simple_lookup(lfile.rows, TRUE), lquery, TRUE) # EMPTY
RecipientMappingHit ==
    resolve(load_simple_lookup(lfile.rows, FALSE), lquery, FALSE) # EMPTY

\* Recipient_Contact__c of one row: the audit's flag is "N" exactly when the
\* mapping job takes the row for unmapped
RecipientAuditAgreesWithMapping ==
    (lkind = "simple" /\ lpc = "resolved" /\ strip(lquery) # EMPTY) =>
        (RecipientAuditHit <=> RecipientMappingHit)

\* an id given by its 15-character prefix is matched by the audit and unmapped in
\* the mapping job
RecipientMatchedButUnmapped ==
    /\ lkind = "simple" /\ lpc = "resolved"
    /\ lfile.rows = << [k |-> LongKeyX, v |-> <<"x">>] >>
    /\ lquery = ShortKeyPadded
    /\ RecipientAuditHit /\ ~RecipientMappingHit

(***************************************************************************)
(* The chunked jobs.  A source row carries its record id, the raw cell of  *)
(* the followed field and the raw cell of the field's record-type column.  *)
(***************************************************************************)
DEFAULT_OWNER_ID == <<"0", "5", "O">>
DEFAULT_CREATEDBY_LASTMODIFIED_ID == <<"0", "5", "C">>
DEFAULT_AGENT_MANAGER_ID == <<"0", "5", "C">>
ACCOUNT_UNITY_ID == <<"0", "1", "U">>
ACCOUNT_ARROW_VERTICAL_ID == <<"0", "1", "V">>

\* record-type names the gates compare with (after strip().upper())
RFPD == <<"R">>
ALLIANCE == <<"A">>
CXG == <<"X">>
RFPD_ACCOUNT == <<"R", " ", "A">>
UNITY == <<"U">>
ARROW_VERICAL == <<"A", " ", "V">>

\* the lines of an output file: the header, the line of a source row, a line that
\* belongs to no source row, and what an earlier run left in the file
HeaderLine == [kind |-> "header", id |-> 0]
StaleLine == [kind |-> "stale", id |-> 0]
NoRowLine == [kind |-> "row", id |-> 0]
RowLines(chunk) == [i \in 1..Len(chunk) |-> [kind |-> "row", id |-> chunk[i].id]]

\* a writer that puts the header in front of every chunk
to_csv_header_always(file, rows, written) == file \o << HeaderLine >> \o rows
\* chunk.to_csv(file, mode="a" if header_written else "w", header=not header_written)
to_csv(file, rows, written) ==
    IF written THEN file \o rows ELSE << HeaderLine >> \o rows

\* mask.any(), mask.sum()
any(mask) == \E i \in DOMAIN mask : mask[i]
\* a count that only tells whether a chunk has such a row
sum_at_most_one(mask) == IF \E i \in DOMAIN mask : mask[i] THEN 1 ELSE 0
sum(mask) == Cardinality({i \in DOMAIN mask : mask[i]})

\* the (record id, value) pairs of the rows a boolean mask selects, in row order
RECURSIVE pick(_, _, _, _)
pick(chunk, mask, vals, i) ==
    IF i > Len(chunk) THEN << >>
    ELSE (IF mask[i] THEN << <<chunk[i].id, vals[i]>> >> ELSE << >>)
         \o pick(chunk, mask, vals, i + 1)

Handled(outs, unm, blk) == [ok |-> TRUE, outs |-> outs, unm |-> unm, blk |-> blk]
KeyError == [ok |-> FALSE, outs |-> << >>, unm |-> << >>, blk |-> << >>]

\* standard user fields that get the default only for a value the lookup misses
standard_user_fields_default_on_miss(chunk, user_lookup_dict, default) ==
    LET looked == [i \in 1..Len(chunk) |-> resolve(user_lookup_dict, chunk[i].val, FALSE)]
        mask == [i \in 1..Len(chunk) |->
                    strip(chunk[i].val) # EMPTY /\ strip(looked[i]) = EMPTY]
    IN Handled([i \in 1..Len(chunk) |-> IF mask[i] THEN default ELSE looked[i]], << >>, << >>)

\* OwnerId / CreatedById / LastModifiedById: lookup, then the default on every blank result
standard_user_fields(chunk, user_lookup_dict, default) ==
    LET looked == [i \in 1..Len(chunk) |-> resolve(user_lookup_dict, chunk[i].val, FALSE)]
        mask == [i \in 1..Len(chunk) |-> strip(looked[i]) = EMPTY]
    IN Handled([i \in 1..Len(chunk) |-> IF mask[i] THEN default ELSE looked[i]], << >>, << >>)

\* a custom user field that treats a blank source value as unmapped
custom_user_fields_blank_unmapped(chunk, cols, user_lookup_dict) ==
    LET original == [i \in 1..Len(chunk) |-> strip(chunk[i].val)]
        looked == [i \in 1..Len(chunk) |-> resolve(user_lookup_dict, chunk[i].val, FALSE)]
        mapped == [i \in 1..Len(chunk) |-> strip(looked[i])]
        unmapped_mask == [i \in 1..Len(chunk) |-> mapped[i] = EMPTY]
        unm == IF any(unmapped_mask) /\ ("Id" \in cols \/ "Legacy_SF_Record_ID__c" \in cols)
               THEN pick(chunk, unmapped_mask, original, 1) ELSE << >>
    IN Handled([i \in 1..Len(chunk) |->
                   IF unmapped_mask[i] THEN DEFAULT_AGENT_MANAGER_ID ELSE looked[i]],
               unm, << >>)

\* Case Surveys, Agent__c / Managers_Name_LU__c
custom_user_fields(chunk, cols, user_lookup_dict) ==
    LET original == [i \in 1..Len(chunk) |-> strip(chunk[i].val)]
        looked == [i \in 1..Len(chunk) |-> resolve(user_lookup_dict, chunk[i].val, FALSE)]
        mapped == [i \in 1..Len(chunk) |-> strip(looked[i])]
        unmapped_mask == [i \in 1..Len(chunk) |-> original[i] # EMPTY /\ mapped[i] = EMPTY]
        unm == IF any(unmapped_mask) /\ ("Id" \in cols \/ "Legacy_SF_Record_ID__c" \in cols)
               THEN pick(chunk, unmapped_mask, original, 1) ELSE << >>
    IN Handled([i \in 1..Len(chunk) |->
                   IF unmapped_mask[i] THEN DEFAULT_AGENT_MANAGER_ID ELSE looked[i]],
               unm, << >>)

\* Case Surveys, Case__c (and the contact fields): leave blank, track
CaseSurveys_Case__c(chunk, cols, case_lookup_dict) ==
    LET original == [i \in 1..Len(chunk) |-> strip(chunk[i].val)]
        looked == [i \in 1..Len(chunk) |-> resolve(case_lookup_dict, chunk[i].val, FALSE)]
        mapped == [i \in 1..Len(chunk) |-> strip(looked[i])]
        unmapped_mask == [i \in 1..Len(chunk) |-> original[i] # EMPTY /\ mapped[i] = EMPTY]
        unm == IF any(unmapped_mask) /\ ("Id" \in cols \/ "Legacy_SF_Record_ID__c" \in cols)
               THEN pick(chunk, unmapped_mask, original, 1) ELSE << >>
    IN Handled(looked, unm, << >>)

\* Case Survey Junction, Case__c / Case_Survey__c: the record id is the Id column only
Junction_Case__c(chunk, cols, case_lookup_dict) ==
    LET original == [i \in 1..Len(chunk) |-> strip(chunk[i].val)]
        looked == [i \in 1..Len(chunk) |-> resolve(case_lookup_dict, chunk[i].val, FALSE)]
        mapped == [i \in 1..Len(chunk) |-> strip(looked[i])]
        unmapped_mask == [i \in 1..Len(chunk) |-> original[i] # EMPTY /\ mapped[i] = EMPTY]
        unm == IF any(unmapped_mask) /\ "Id" \in cols
               THEN pick(chunk, unmapped_mask, original, 1) ELSE << >>
    IN Handled(looked, unm, << >>)

\* Talkdesk Activity, talkdesk__User__c: default for the unmapped, track
talkdesk__User__c(chunk, cols, user_lookup_dict) ==
    LET original == [i \in 1..Len(chunk) |-> strip(chunk[i].val)]
        looked == [i \in 1..Len(chunk) |-> resolve(user_lookup_dict, chunk[i].val, FALSE)]
        mapped == [i \in 1..Len(chunk) |-> strip(looked[i])]
        unmapped_mask == [i \in 1..Len(chunk) |-> original[i] # EMPTY /\ mapped[i] = EMPTY]
        unm == IF any(unmapped_mask) /\ "Id" \in cols
               THEN pick(chunk, unmapped_mask, original, 1) ELSE << >>
    IN Handled([i \in 1..Len(chunk) |->
                   IF unmapped_mask[i] THEN DEFAULT_CREATEDBY_LASTMODIFIED_ID ELSE looked[i]],
               unm, << >>)

\* Messaging Session, MessagingEndUserId: skipped when the dictionary is empty;
\* the unmapped rows are taken with their "Id" column, absent or not
MessagingEndUserId(chunk, cols, dict_messaging_enduser) ==
    LET original_enduser == [i \in 1..Len(chunk) |-> strip(chunk[i].val)]
        looked == [i \in 1..Len(chunk) |-> resolve(dict_messaging_enduser, chunk[i].val, FALSE)]
        mapped_enduser == [i \in 1..Len(chunk) |-> strip(looked[i])]
        unmapped_mask == [i \in 1..Len(chunk) |->
                             original_enduser[i] # EMPTY /\ mapped_enduser[i] = EMPTY]
    IN IF DOMAIN dict_messaging_enduser = {}
       THEN Handled([i \in 1..Len(chunk) |-> chunk[i].val], << >>, << >>)
       ELSE IF any(unmapped_mask) /\ "Id" \notin cols THEN KeyError
       ELSE Handled(looked, pick(chunk, unmapped_mask, original_enduser, 1), << >>)

\* the raw cells of the field, as (record id, cell) pairs the blanked detail keeps
raw(chunk) == [i \in 1..Len(chunk) |-> chunk[i].val]

\* Talkdesk Activity, talkdesk__Case__c: RFPD / Alliance / CXG blanking, then lookup
talkdesk__Case__c(chunk, cols, case_lookup_dict) ==
    LET gate == "talkdesk__Case__r.recordtype.Name" \in cols
        rt == [i \in 1..Len(chunk) |-> upper(strip(chunk[i].rt))]
        mask_rfpd == [i \in 1..Len(chunk) |-> gate /\ rt[i] = RFPD]
        mask_alliance == [i \in 1..Len(chunk) |-> gate /\ rt[i] = ALLIANCE]
        mask_cxg == [i \in 1..Len(chunk) |-> gate /\ rt[i] = CXG]
        gated == [i \in 1..Len(chunk) |-> mask_rfpd[i] \/ mask_alliance[i] \/ mask_cxg[i]]
        after == [i \in 1..Len(chunk) |-> IF gated[i] THEN EMPTY ELSE chunk[i].val]
        original == [i \in 1..Len(chunk) |-> strip(after[i])]
        looked == [i \in 1..Len(chunk) |-> resolve(case_lookup_dict, after[i], FALSE)]
        mapped == [i \in 1..Len(chunk) |-> strip(looked[i])]
        unmapped_mask == [i \in 1..Len(chunk) |-> original[i] # EMPTY /\ mapped[i] = EMPTY]
        unm == IF any(unmapped_mask) /\ "Id" \in cols
               THEN pick(chunk, unmapped_mask, original, 1) ELSE << >>
    IN IF any(gated) /\ "Id" \notin cols THEN KeyError
       ELSE Handled(looked, unm,
                    pick(chunk, mask_rfpd, raw(chunk), 1)
                    \o pick(chunk, mask_alliance, raw(chunk), 1)
                    \o pick(chunk, mask_cxg, raw(chunk), 1))

\* Talkdesk Activity Case Relation, talkdesk__Case__c: RFPD blanking, then lookup
CaseRelation_Case__c(chunk, cols, dict_case) ==
    LET gate == "talkdesk__Case__r.recordtype.Name" \in cols
        rfpd_mask == [i \in 1..Len(chunk) |-> gate /\ upper(strip(chunk[i].rt)) = RFPD]
        after == [i \in 1..Len(chunk) |-> IF rfpd_mask[i] THEN EMPTY ELSE chunk[i].val]
        original_case == [i \in 1..Len(chunk) |-> strip(after[i])]
        looked == [i \in 1..Len(chunk) |-> resolve(dict_case, after[i], FALSE)]
        mapped_case == [i \in 1..Len(chunk) |-> strip(looked[i])]
        unmapped_mask == [i \in 1..Len(chunk) |->
                             original_case[i] # EMPTY /\ mapped_case[i] = EMPTY]
    IN IF (any(rfpd_mask) \/ any(unmapped_mask)) /\ "Id" \notin cols THEN KeyError
       ELSE Handled(looked, pick(chunk, unmapped_mask, original_case, 1),
                    pick(chunk, rfpd_mask, raw(chunk), 1))

\* a map_account that sends a gate constant through the lookup like any value
map_account_lookup_only(account_lookup_dict, val) ==
    LET val_clean == strip(val)
    IN IF val_clean = EMPTY THEN EMPTY
       ELSE dict_get(account_lookup_dict, lower(val_clean), EMPTY)

\* Opportunity, AccountId: RFPD Account blanked, Unity and Arrow / Verical set to
\* their constants, every other row looked up (a constant passes through map_account)
map_account(account_lookup_dict, val) ==
    LET val_clean == strip(val)
    IN IF val_clean = EMPTY THEN EMPTY
       ELSE IF val_clean \in {ACCOUNT_UNITY_ID, ACCOUNT_ARROW_VERTICAL_ID} THEN val_clean
       ELSE dict_get(account_lookup_dict, lower(val_clean), EMPTY)

Opportunity_AccountId(chunk, cols, account_lookup_dict) ==
    LET gate == "Account.recordtype.Name" \in cols
        recordtype_vals == [i \in 1..Len(chunk) |-> upper(strip(chunk[i].rt))]
        mask_rfpd == [i \in 1..Len(chunk) |-> gate /\ recordtype_vals[i] = RFPD_ACCOUNT]
        mask_unity == [i \in 1..Len(chunk) |-> gate /\ recordtype_vals[i] = UNITY]
        mask_arrow == [i \in 1..Len(chunk) |-> gate /\ recordtype_vals[i] = ARROW_VERICAL]
        after == [i \in 1..Len(chunk) |->
                    IF mask_rfpd[i] THEN EMPTY
                    ELSE IF mask_unity[i] THEN ACCOUNT_UNITY_ID
                    ELSE IF mask_arrow[i] THEN ACCOUNT_ARROW_VERTICAL_ID
                    ELSE chunk[i].val]
        original == [i \in 1..Len(chunk) |-> strip(after[i])]
        looked == [i \in 1..Len(chunk) |-> map_account(account_lookup_dict, after[i])]
        mapped == [i \in 1..Len(chunk) |-> strip(looked[i])]
        unmapped_mask == [i \in 1..Len(chunk) |->
                            /\ original[i] # EMPTY /\ mapped[i] = EMPTY
                            /\ original[i] \notin {ACCOUNT_UNITY_ID, ACCOUNT_ARROW_VERTICAL_ID}]
        unm == IF any(unmapped_mask) /\ "Id" \in cols
               THEN pick(chunk, unmapped_mask, original, 1) ELSE << >>
    IN IF any(mask_rfpd) /\ "Id" \notin cols THEN KeyError
       ELSE Handled(looked, unm, pick(chunk, mask_rfpd, raw(chunk), 1))

\* Event, WhoId: leave blank, track when the file has an Id column
WhoId(chunk, cols, dict_contact) ==
    LET original_whoid == [i \in 1..Len(chunk) |-> strip(chunk[i].val)]
        looked == [i \in 1..Len(chunk) |-> resolve(dict_contact, chunk[i].val, FALSE)]
        mapped_whoid == [i \in 1..Len(chunk) |-> strip(looked[i])]
        unmapped_mask == [i \in 1..Len(chunk) |->
                             original_whoid[i] # EMPTY /\ mapped_whoid[i] = EMPTY]
        unm == IF any(unmapped_mask) /\ "Id" \in cols
               THEN pick(chunk, unmapped_mask, original_whoid, 1) ELSE << >>
    IN Handled(looked, unm, << >>)

(***************************************************************************)
(* The per-field accumulators of the audit jobs and of Case ParentId.      *)
(***************************************************************************)
ZeroStats ==
    [total |-> 0, total_nonblank |-> 0, matched |-> 0, unmatched |-> 0,
     unique_nonblank |-> {}, unique_matched |-> {}, unique_unmatched |-> {},
     blanked_by_recordtype |-> 0, blank |-> 0, blanked_detail |-> EmptyDict]

Audited(st, flags) == [ok |-> TRUE, stats |-> st, flags |-> flags]

\* Case ParentId: the ParentId counters of one chunk added to the running ones
CaseParentId_ParentId(chunk, cols, case_lookup_dict, st) ==
    LET original_parentid == [i \in 1..Len(chunk) |-> strip(chunk[i].val)]
        mapped_parentid == [i \in 1..Len(chunk) |->
                               resolve(case_lookup_dict, original_parentid[i], FALSE)]
        nonblank_parentid_mask == [i \in 1..Len(chunk) |-> original_parentid[i] # EMPTY]
        matched_parentid_mask == [i \in 1..Len(chunk) |-> mapped_parentid[i] # EMPTY]
        unmatched_parentid_mask == [i \in 1..Len(chunk) |->
                                       nonblank_parentid_mask[i] /\ ~matched_parentid_mask[i]]
    IN IF "Id" \notin cols THEN [ok |-> FALSE, outs |-> << >>, unm |-> << >>, stats |-> st]
       ELSE [ok |-> TRUE, outs |-> mapped_parentid,
             unm |-> pick(chunk, unmatched_parentid_mask, original_parentid, 1),
             stats |-> [st EXCEPT
                 !.total = @ + Len(chunk),
                 !.total_nonblank = @ + sum(nonblank_parentid_mask),
                 !.matched = @ + sum([i \in 1..Len(chunk) |->
                                  nonblank_parentid_mask[i] /\ matched_parentid_mask[i]]),
                 !.unmatched = @ + sum(unmatched_parentid_mask)]]

\* Case ParentId, the three-column frame built from original_id and mapped_parentid.
\* Without a ParentId column mapped_parentid comes from a fresh Series labelled
\* 0..n-1 while original_id keeps the chunk's labels offset..offset+n-1; the frame
\* has a line for every label of either, in label order.
output_df(chunk, cols, offset) ==
    IF "ParentId" \in cols \/ offset = 0 THEN RowLines(chunk)
    ELSE [i \in 1..Len(chunk) |-> NoRowLine] \o RowLines(chunk)

\* get_flag of the audits
get_flag(src, lkp) ==
    IF strip(src) = EMPTY THEN EMPTY ELSE IF strip(lkp) # EMPTY THEN <<"Y">> ELSE <<"N">>

\* chunk[col + "_Flag"] = pd.Series(flags): the new Series is labelled 0..n-1 and the
\* chunk's rows offset..offset+n-1, so a row receives the flag with its own label,
\* and nothing (written as an empty cell) when there is none
assign_flags(flags, offset) ==
    [i \in 1..Len(flags) |-> IF offset + i <= Len(flags) THEN flags[offset + i] ELSE EMPTY]

\* Talkdesk Activity audit, one configured column on one chunk
TalkdeskAudit_column(chunk, cols, lookup_dict, recordtype_col, blank_values, st, offset) ==
    LET source_vals == [i \in 1..Len(chunk) |-> strip(chunk[i].val)]
        lkp_vals == [i \in 1..Len(chunk) |->
                        IF source_vals[i] # EMPTY
                        THEN dict_get(lookup_dict, lower(source_vals[i]), EMPTY) ELSE EMPTY]
        flags == [i \in 1..Len(chunk) |-> get_flag(source_vals[i], lkp_vals[i])]
        recordtype_vals == [i \in 1..Len(chunk) |-> upper(strip(chunk[i].rt))]
        count == IF recordtype_col \in cols
                 THEN Cardinality({p \in (1..Len(chunk)) \X blank_values :
                                      recordtype_vals[p[1]] = upper(p[2])})
                 ELSE 0
        nonblank == {i \in 1..Len(chunk) : source_vals[i] # EMPTY}
        hit == {i \in nonblank : lkp_vals[i] # EMPTY}
    IN Audited([st EXCEPT
                   !.blanked_by_recordtype = @ + count,
                   !.blanked_detail =
                       IF recordtype_col \in cols
                       THEN [bv \in DOMAIN @ \cup blank_values |->
                               dict_get(@, bv, 0)
                               + (IF bv \in blank_values
                                  THEN sum([i \in 1..Len(chunk) |->
                                               recordtype_vals[i] = upper(bv)])
                                  ELSE 0)]
                       ELSE @,
                   !.total = @ + Len(chunk),
                   !.total_nonblank = @ + Cardinality(nonblank),
                   !.unique_nonblank = @ \cup {source_vals[i] : i \in nonblank},
                   !.matched = @ + Cardinality(hit),
                   !.unique_matched = @ \cup {source_vals[i] : i \in hit},
                   !.unmatched = @ + Cardinality(nonblank \ hit),
                   !.unique_unmatched = @ \cup {source_vals[i] : i \in nonblank \ hit}],
               assign_flags(flags, offset))

\* the spellings under which the Case Relation audit accepts the record-type column
\* (any column whose lower-cased name is talkdesk__case__r.recordtype.name)
RecordtypeSpellings ==
    {"talkdesk__Case__r.recordtype.Name", "talkdesk__Case__r.RecordType.Name"}

\* Talkdesk Activity Case Relation audit, talkdesk__Case__c on one chunk
CaseRelationAudit_Case__c(chunk, cols, dict_case, st, offset) ==
    LET recordtype_col == cols \cap RecordtypeSpellings # {}
        rfpd_mask == [i \in 1..Len(chunk) |->
                         recordtype_col /\ upper(strip(chunk[i].rt)) = RFPD]
        source_vals == [i \in 1..Len(chunk) |-> strip(chunk[i].val)]
        blanked_count == sum([i \in 1..Len(chunk) |-> source_vals[i] # EMPTY /\ rfpd_mask[i]])
        effective_source == [i \in 1..Len(chunk) |->
                                IF rfpd_mask[i] THEN EMPTY ELSE source_vals[i]]
        lkp_vals == [i \in 1..Len(chunk) |->
                        IF effective_source[i] # EMPTY
                        THEN dict_get(dict_case, lower(effective_source[i]), EMPTY) ELSE EMPTY]
        flags == [i \in 1..Len(chunk) |->
                     IF rfpd_mask[i] /\ source_vals[i] # EMPTY THEN <<"B", "L", "A", "N", "K", "E", "D">>
                     ELSE get_flag(effective_source[i], lkp_vals[i])]
        nonblank == {i \in 1..Len(chunk) : effective_source[i] # EMPTY}
        hit == {i \in nonblank : lkp_vals[i] # EMPTY}
    IN Audited([st EXCEPT
                   !.blanked_by_recordtype = @ + blanked_count,
                   !.blanked_detail =
                       IF recordtype_col
                       THEN [bv \in DOMAIN @ \cup {RFPD} |->
                               dict_get(@, bv, 0) + (IF bv = RFPD THEN blanked_count ELSE 0)]
                       ELSE @,
                   !.total = @ + Len(chunk),
                   !.total_nonblank = @ + Cardinality(nonblank),
                   !.unique_nonblank = @ \cup {effective_source[i] : i \in nonblank},
                   !.matched = @ + Cardinality(hit),
                   !.unique_matched = @ \cup {effective_source[i] : i \in hit},
                   !.unmatched = @ + Cardinality(nonblank \ hit),
                   !.unique_unmatched = @ \cup {effective_source[i] : i \in nonblank \ hit}],
               assign_flags(flags, offset))

\* Opportunity audit, AccountId, row by row: only RFPD Account is treated as a gate
RECURSIVE OpportunityAudit_AccountId(_, _, _, _, _)
OpportunityAudit_AccountId(chunk, cols, lookup_dict, st, flags) ==
    IF chunk = << >> THEN Audited(st, flags)
    ELSE LET row == Head(chunk)
             source_val == strip(row.val)
             blanked_by_rt == /\ "Account.recordtype.Name" \in cols
                              /\ upper(strip(row.rt)) = RFPD_ACCOUNT
             lkp_val == dict_get(lookup_dict, lower(source_val), EMPTY)
             flag == IF blanked_by_rt THEN <<"B", "L", "A", "N", "K", "E", "D">>
                     ELSE IF source_val = EMPTY THEN EMPTY
                     ELSE IF lkp_val # EMPTY THEN <<"Y">> ELSE <<"N">>
             st1 == IF blanked_by_rt THEN [st EXCEPT !.blanked_by_recordtype = @ + 1]
                    ELSE IF source_val = EMPTY THEN [st EXCEPT !.blank = @ + 1]
                    ELSE IF lkp_val # EMPTY
                         THEN [st EXCEPT !.matched = @ + 1,
                                         !.unique_matched = @ \cup {lower(source_val)}]
                    ELSE [st EXCEPT !.unmatched = @ + 1,
                                    !.unique_unmatched = @ \cup {lower(source_val)}]
             st2 == [st1 EXCEPT
                        !.total = @ + 1,
                            !.unique_nonblank = IF source_val # EMPTY
                                            THEN @ \cup {lower(source_val)} ELSE @]
         IN OpportunityAudit_AccountId(Tail(chunk), cols, lookup_dict, st2, Append(flags, flag))

\* E-Commerce contact audit: legacy_map = dict(zip(keys, values)) of the raw cells
RECURSIVE legacy_map(_, _)
legacy_map(d, rows) ==
    IF rows = << >> THEN d
    ELSE legacy_map(dict_put(d, Head(rows).k, Head(rows).v), Tail(rows))

\* E-Commerce contact audit, one user column of the whole file: the flag of a row is
\* "Y" when its raw cell is a key of legacy_map and "N" otherwise; the summary
\* counts the "N" flags
ECommerceAudit_column(df, map) ==
    LET flags == [i \in 1..Len(df) |-> IF df[i].val \in DOMAIN map THEN <<"Y">> ELSE <<"N">>]
    IN Audited([ZeroStats EXCEPT !.unmatched = sum([i \in 1..Len(df) |-> flags[i] = <<"N">>])],
               flags)

(***************************************************************************)
(* The chunk loop.  A run follows one configured field of one script over  *)
(* a source file that is read CHUNK_SIZE rows at a time; the last chunk of *)
(* a file may be shorter.  The rows of a chunk are chosen when it is read. *)
(***************************************************************************)
Jobs ==
    {<<"CaseSurveys", "OwnerId">>, <<"CaseSurveys", "Agent__c">>, <<"CaseSurveys", "Case__c">>,
     <<"Messaging", "CreatedById">>, <<"Messaging", "MessagingEndUserId">>,
     <<"Opportunity", "AccountId">>,
     <<"Talkdesk", "talkdesk__User__c">>, <<"Talkdesk", "talkdesk__Case__c">>,
     <<"CaseRelation", "talkdesk__Case__c">>,
     <<"Junction", "Case__c">>, <<"Event", "WhoId">>, <<"CaseParentId", "ParentId">>,
     <<"TalkdeskAudit", "talkdesk__User__c">>, <<"TalkdeskAudit", "talkdesk__Case__c">>,
     <<"CaseRelationAudit", "talkdesk__Case__c">>,
     <<"OpportunityAudit", "AccountId">>,
     <<"ECommerceAudit", "OwnerId">>}

\* the columns, next to the followed field, a source file of the job may carry
Schemas(j) ==
    CASE j = "CaseSurveys" -> SUBSET {"Id", "Legacy_SF_Record_ID__c"}
      [] j \in {"Opportunity", "OpportunityAudit"} -> SUBSET {"Id", "Account.recordtype.Name"}
      [] j \in {"Talkdesk", "TalkdeskAudit"} ->
             SUBSET {"Id", "talkdesk__Case__r.recordtype.Name"}
      [] j \in {"CaseRelation", "CaseRelationAudit"} ->
             {ids \cup rt : ids \in SUBSET {"Id"},
                            rt \in {{}} \cup {{c} : c \in RecordtypeSpellings}}
      [] j = "ECommerceAudit" -> {{"Id"}}
      [] j = "CaseParentId" -> SUBSET {"Id", "ParentId"}
      [] OTHER -> SUBSET {"Id"}

\* the record-type column that belongs to the followed field, if the field has one
GateColumns(j, f) ==
    CASE j \in {"Opportunity", "OpportunityAudit"} -> {"Account.recordtype.Name"}
      [] j \in {"Talkdesk", "TalkdeskAudit"} /\ f = "talkdesk__Case__c" ->
             {"talkdesk__Case__r.recordtype.Name"}
      [] j \in {"CaseRelation", "CaseRelationAudit"} -> RecordtypeSpellings
      [] OTHER -> {}

\* the cells tried: empty, a value the lookups may hold in two spellings, one they
\* may not; the whitespace-only cell is tried in the fields without a record-type
\* column
SourceVals(j, f) ==
    {EMPTY, <<" ", "A">>, <<"a">>, <<"b">>}
    \cup (IF GateColumns(j, f) = {} THEN {<<" ">>} ELSE {})
RecordtypeVals(j) ==
    IF j \in {"Opportunity", "OpportunityAudit"}
    THEN {EMPTY, <<" ", "r", " ", "A">>, <<"u">>, <<"A", " ", "V">>}
    ELSE {EMPTY, <<" ", "r">>, <<"X">>}
\* (Case ParentId reads the cells of a file without a ParentId column as empty)
SourceCells(j, f, cols) ==
    [val : IF j = "CaseParentId" /\ "ParentId" \notin cols THEN {EMPTY} ELSE SourceVals(j, f),
     rt : IF cols \cap GateColumns(j, f) # {} THEN RecordtypeVals(j) ELSE {EMPTY}]

LookupFiles ==
    { << >>,
      << [k |-> <<"a">>, v |-> <<"x">>] >>,
      << [k |-> <<"A", " ">>, v |-> <<" ", "y">>], [k |-> <<"b">>, v |-> EMPTY] >> }

Init ==
    /\ lpc = "idle" /\ lkind = "none" /\ lfile = << >> /\ ldict = EmptyDict
    /\ lquery = EMPTY /\ lresult = EMPTY
    /\ pc = "start"
    /\ \E jf \in Jobs :
          /\ job = jf[1] /\ field = jf[2]
          /\ columns \in Schemas(jf[1])
    /\ table = EmptyDict /\ lookup_columns = TRUE
    /\ chunkSize \in 1..MaxChunk
    /\ consumed = << >> /\ eof = FALSE /\ out = << >>
    /\ header_written = FALSE /\ headers = 0
    /\ unmapped = << >> /\ blanked = << >> /\ stats = ZeroStats
    /\ lines = << StaleLine >> /\ unmapped_file = "stale" /\ held = 0
    /\ SplitIdle /\ FrameIdle

\* the prelude of main(): the lookups are loaded, then the output of an earlier run
\* is removed.  A lookup source without its key or value column stops the mapping
\* jobs (ValueError) and the audits that index the columns (KeyError); the
\* Opportunity audit's load_lookup_dict warns and returns an empty dictionary.
Prepare ==
    /\ pc = "start"
    /\ \/ \E file \in LookupFiles :
             /\ table' = IF job = "ECommerceAudit" THEN legacy_map(EmptyDict, file)
                          ELSE load_simple_lookup(file, FALSE)
             /\ lookup_columns' = TRUE
             /\ pc' = "run"
             /\ lines' = IF job \in {"OpportunityAudit", "ECommerceAudit"} THEN lines ELSE << >>
       \/ /\ lookup_columns' = FALSE
          /\ IF job = "OpportunityAudit"
             THEN /\ table' = EmptyDict /\ pc' = "run"
             ELSE /\ table' = table /\ pc' = "error"
          /\ lines' = lines
    /\ UNCHANGED <<job, field, columns, chunkSize, consumed, eof, out, header_written,
                   headers, unmapped, blanked, stats, unmapped_file, held, lvars, xvars>>

\* the next chunk of the reader: n rows, labelled on from the rows already read
NextChunk(cells) ==
    [i \in 1..Len(cells) |->
        [id |-> Len(consumed) + i, val |-> cells[i].val, rt |-> cells[i].rt]]
MaxRowsOf(j, f) == IF GateColumns(j, f) = {} THEN MaxRows ELSE MaxGatedRows
\* the reader yields chunks of CHUNK_SIZE rows and a shorter last one; for a file
\* with no data row it yields one empty chunk
CanRead(n) ==
    /\ pc = "run" /\ ~eof
    /\ n \in 0..chunkSize /\ Len(consumed) + n <= MaxRowsOf(job, field)
    /\ n = 0 => consumed = << >>

\* what every mapping script does with a handled chunk: collect, append to the output
WrittenLines(chunk, h, rows) ==
    /\ consumed' = consumed \o chunk
    /\ eof' = (Len(chunk) < chunkSize)
    /\ held' = Len(chunk)
    /\ IF h.ok
       THEN /\ out' = out \o h.outs
            /\ unmapped' = unmapped \o h.unm
            /\ blanked' = blanked \o h.blk
            /\ lines' = to_csv(lines, rows, header_written)
            /\ header_written' = TRUE
            /\ headers' = IF header_written THEN headers ELSE headers + 1
            /\ pc' = pc
       ELSE /\ pc' = "error"
            /\ UNCHANGED <<out, unmapped, blanked, header_written, headers, lines>>
    /\ UNCHANGED <<job, field, columns, table, chunkSize, lookup_columns, unmapped_file,
                   lvars, xvars>>
Written(chunk, h) == WrittenLines(chunk, h, RowLines(chunk))

\* what every audit script does with an audited chunk: keep the counters, append the detail
Reported(chunk, a) ==
    /\ consumed' = consumed \o chunk
    /\ eof' = (Len(chunk) < chunkSize)
    /\ held' = Len(chunk)
    /\ IF a.ok
       THEN /\ stats' = a.stats
            /\ out' = out \o a.flags
            /\ lines' = to_csv(lines, RowLines(chunk), header_written)
            /\ header_written' = TRUE
            /\ headers' = IF header_written THEN headers ELSE headers + 1
            /\ pc' = pc
       ELSE /\ pc' = "error"
            /\ UNCHANGED <<stats, out, header_written, headers, lines>>
    /\ UNCHANGED <<job, field, columns, table, chunkSize, unmapped, blanked,
                   lookup_columns, unmapped_file, lvars, xvars>>

CaseSurveysChunk ==
    /\ job = "CaseSurveys"
    /\ \E n \in 0..chunkSize :
         /\ CanRead(n)
         /\ \E cells \in [1..n -> SourceCells(job, field, columns)] :
              LET chunk == NextChunk(cells)
              IN /\ Written(chunk,
                        CASE field = "OwnerId" ->
                                 standard_user_fields(chunk, table, DEFAULT_OWNER_ID)
                          [] field = "Agent__c" -> custom_user_fields(chunk, columns, table)
                          [] OTHER -> CaseSurveys_Case__c(chunk, columns, table))
                 /\ UNCHANGED stats

MessagingChunk ==
    /\ job = "Messaging"
    /\ \E n \in 0..chunkSize :
         /\ CanRead(n)
         /\ \E cells \in [1..n -> SourceCells(job, field, columns)] :
              LET chunk == NextChunk(cells)
              IN /\ Written(chunk,
                        CASE field = "CreatedById" ->
                                 standard_user_fields(chunk, table,
                                                      DEFAULT_CREATEDBY_LASTMODIFIED_ID)
                          [] OTHER -> MessagingEndUserId(chunk, columns, table))
                 /\ UNCHANGED stats

OpportunityChunk ==
    /\ job = "Opportunity"
    /\ \E n \in 0..chunkSize :
         /\ CanRead(n)
         /\ \E cells \in [1..n -> SourceCells(job, field, columns)] :
              LET chunk == NextChunk(cells)
              IN /\ Written(chunk, Opportunity_AccountId(chunk, columns, table))
                 /\ UNCHANGED stats

TalkdeskChunk ==
    /\ job = "Talkdesk"
    /\ \E n \in 0..chunkSize :
         /\ CanRead(n)
         /\ \E cells \in [1..n -> SourceCells(job, field, columns)] :
              LET chunk == NextChunk(cells)
              IN /\ Written(chunk,
                        CASE field = "talkdesk__User__c" ->
                                 talkdesk__User__c(chunk, columns, table)
                          [] OTHER -> talkdesk__Case__c(chunk, columns, table))
                 /\ UNCHANGED stats

CaseRelationChunk ==
    /\ job = "CaseRelation"
    /\ \E n \in 0..chunkSize :
         /\ CanRead(n)
         /\ \E cells \in [1..n -> SourceCells(job, field, columns)] :
              LET chunk == NextChunk(cells)
              IN /\ Written(chunk, CaseRelation_Case__c(chunk, columns, table))
                 /\ UNCHANGED stats

JunctionChunk ==
    /\ job = "Junction"
    /\ \E n \in 0..chunkSize :
         /\ CanRead(n)
         /\ \E cells \in [1..n -> SourceCells(job, field, columns)] :
              LET chunk == NextChunk(cells)
              IN /\ Written(chunk, Junction_Case__c(chunk, columns, table))
                 /\ UNCHANGED stats

EventChunk ==
    /\ job = "Event"
    /\ \E n \in 0..chunkSize :
         /\ CanRead(n)
         /\ \E cells \in [1..n -> SourceCells(job, field, columns)] :
              LET chunk == NextChunk(cells)
              IN /\ Written(chunk, WhoId(chunk, columns, table))
                 /\ UNCHANGED stats

CaseParentIdChunk ==
    /\ job = "CaseParentId"
    /\ \E n \in 0..chunkSize :
         /\ CanRead(n)
         /\ \E cells \in [1..n -> SourceCells(job, field, columns)] :
              LET chunk == NextChunk(cells)
                  h == CaseParentId_ParentId(chunk, columns, table, stats)
              IN /\ WrittenLines(chunk,
                                 [ok |-> h.ok, outs |-> h.outs, unm |-> h.unm, blk |-> << >>],
                                 output_df(chunk, columns, Len(consumed)))
                 /\ stats' = h.stats

TalkdeskAuditChunk ==
    /\ job = "TalkdeskAudit"
    /\ \E n \in 0..chunkSize :
         /\ CanRead(n)
         /\ \E cells \in [1..n -> SourceCells(job, field, columns)] :
              LET chunk == NextChunk(cells)
              IN Reported(chunk,
                     CASE field = "talkdesk__User__c" ->
                              TalkdeskAudit_column(chunk, columns, table,
                                                   "", {}, stats, Len(consumed))
                       [] OTHER ->
                              TalkdeskAudit_column(chunk, columns, table,
                                                   "talkdesk__Case__r.recordtype.Name",
                                                   {RFPD, ALLIANCE, CXG}, stats, Len(consumed)))

CaseRelationAuditChunk ==
    /\ job = "CaseRelationAudit"
    /\ \E n \in 0..chunkSize :
         /\ CanRead(n)
         /\ \E cells \in [1..n -> SourceCells(job, field, columns)] :
              LET chunk == NextChunk(cells)
              IN Reported(chunk,
                          CaseRelationAudit_Case__c(chunk, columns, table, stats, Len(consumed)))

OpportunityAuditChunk ==
    /\ job = "OpportunityAudit"
    /\ \E n \in 0..chunkSize :
         /\ CanRead(n)
         /\ \E cells \in [1..n -> SourceCells(job, field, columns)] :
              LET chunk == NextChunk(cells)
                  a == OpportunityAudit_AccountId(chunk, columns, table, stats, << >>)
              IN /\ consumed' = consumed \o chunk
                 /\ eof' = (Len(chunk) < chunkSize)
                 /\ stats' = a.stats
                 /\ out' = out \o a.flags
                 /\ held' = Len(out) + Len(chunk)
    /\ UNCHANGED <<pc, job, field, columns, table, chunkSize, unmapped, blanked,
                   header_written, headers, lines, lookup_columns, unmapped_file, lvars, xvars>>

\* the E-Commerce contact audit reads the whole file, flags it and writes both reports
ECommerceAuditRun ==
    /\ job = "ECommerceAudit" /\ pc = "run"
    /\ \E n \in 0..MaxRows :
         \E cells \in [1..n -> SourceCells(job, field, columns)] :
            LET df == NextChunk(cells)
                a == ECommerceAudit_column(df, table)
            IN /\ consumed' = df
               /\ stats' = a.stats
               /\ out' = a.flags
               /\ lines' = to_csv(lines, RowLines(df), FALSE)
               /\ held' = Len(df)
    /\ eof' = TRUE /\ header_written' = TRUE /\ headers' = 1
    /\ pc' = "done"
    /\ UNCHANGED <<job, field, columns, table, chunkSize, unmapped, blanked,
                   lookup_columns, unmapped_file, lvars, xvars>>

\* the reader is exhausted: the loop ends and the reports are written.  A mapping
\* job writes the unmapped detail of a field when it has entries; the Opportunity
\* audit writes its detail records in one piece; the Junction job reads the mapped
\* file back whole for cleaning.
Finish ==
    /\ pc = "run" /\ job # "ECommerceAudit"
    /\ eof \/ consumed # << >>
    /\ pc' = "done"
    /\ unmapped_file' = IF unmapped # << >> THEN "written" ELSE unmapped_file
    /\ IF job = "OpportunityAudit"
       THEN /\ lines' = to_csv(lines, RowLines(consumed), FALSE)
            /\ headers' = 1
       ELSE UNCHANGED <<lines, headers>>
    /\ held' = IF job \in {"Junction", "OpportunityAudit"} THEN Len(out) ELSE 0
    /\ UNCHANGED <<job, field, columns, table, chunkSize, consumed, eof, out,
                   header_written, unmapped, blanked, stats, lookup_columns, lvars, xvars>>

Next ==
    \/ Prepare
    \/ CaseSurveysChunk \/ MessagingChunk \/ OpportunityChunk \/ TalkdeskChunk
    \/ CaseRelationChunk \/ JunctionChunk \/ EventChunk \/ CaseParentIdChunk
    \/ TalkdeskAuditChunk \/ CaseRelationAuditChunk \/ OpportunityAuditChunk
    \/ ECommerceAuditRun
    \/ Finish

Spec == Init /\ [][Next]_vars

(***************************************************************************)
(* Properties of the chunked jobs (Spec).  The notions below are those of  *)
(* the specification text, read off the processed source rows.             *)
(***************************************************************************)
MappingJobs == {"CaseSurveys", "Messaging", "Opportunity", "Talkdesk", "CaseRelation",
                "Junction", "Event", "CaseParentId"}
ChunkedAudits == {"TalkdeskAudit", "CaseRelationAudit", "OpportunityAudit"}
CountingJobs == ChunkedAudits \cup {"CaseParentId"}
StandardUserFields == {"OwnerId", "CreatedById", "LastModifiedById"}

\* the rows whose chunk was handled to the end
Processed == 1..Len(out)
Blank(i) == strip(consumed[i].val) = EMPTY
Lookup(i) == dict_get(table, lower(strip(consumed[i].val)), EMPTY)
HasEntry(i) == lower(strip(consumed[i].val)) \in DOMAIN table

\* the gate configured for the followed field: its column and its values
GateField ==
    CASE job \in {"Opportunity", "OpportunityAudit"} -> {"Account.recordtype.Name"}
      [] job \in {"Talkdesk", "TalkdeskAudit"} /\ field = "talkdesk__Case__c" ->
             {"talkdesk__Case__r.recordtype.Name"}
      [] job = "CaseRelation" -> {"talkdesk__Case__r.recordtype.Name"}
      [] job = "CaseRelationAudit" -> RecordtypeSpellings
      [] OTHER -> {}
BlankGate ==
    CASE job \in {"Opportunity", "OpportunityAudit"} -> {RFPD_ACCOUNT}
      [] job \in {"Talkdesk", "TalkdeskAudit"} /\ field = "talkdesk__Case__c" ->
             {RFPD, ALLIANCE, CXG}
      [] job \in {"CaseRelation", "CaseRelationAudit"} -> {RFPD}
      [] OTHER -> {}
ConstantGate ==
    IF job \in {"Opportunity", "OpportunityAudit"}
    THEN (UNITY :> ACCOUNT_UNITY_ID) @@ (ARROW_VERICAL :> ACCOUNT_ARROW_VERTICAL_ID)
    ELSE EmptyDict
GateValue(i) == upper(strip(consumed[i].rt))
Gated(i) ==
    /\ columns \cap GateField # {}
    /\ GateValue(i) \in BlankGate \cup DOMAIN ConstantGate

DefaultOf(f) ==
    CASE f = "OwnerId" -> DEFAULT_OWNER_ID
      [] f \in {"CreatedById", "LastModifiedById", "talkdesk__User__c"} ->
             DEFAULT_CREATEDBY_LASTMODIFIED_ID
      [] f = "Agent__c" -> DEFAULT_AGENT_MANAGER_ID
      [] OTHER -> EMPTY

\* the entries of the unmapped detail that carry record id i
EntriesOf(i) == {e \in 1..Len(unmapped) : unmapped[e][1] = i}
NonBlankRows == {i \in Processed : ~Blank(i)}
BlankRows == {i \in Processed : Blank(i) /\ ~Gated(i)}

GateOutcome(i) ==
    IF GateValue(i) \in DOMAIN ConstantGate THEN ConstantGate[GateValue(i)] ELSE EMPTY

\* C2: in the Opportunity, Talkdesk Activity and Case Relation mapping jobs, a row
\* whose gate field, trimmed and compared without case, equals a gate value has
\* exactly the gate outcome in the gated field (empty, or the gate's constant),
\* whatever its source value is and whether or not the lookup has an entry for it.
C2_GatePrecedence ==
    job \in {"Opportunity", "Talkdesk", "CaseRelation"} =>
        \A i \in Processed : Gated(i) => out[i] = GateOutcome(i)

\* C2 happens: one row blanked by RFPD Account and one set to the Unity constant,
\* both with a source value the lookup would have resolved
C2_Witness ==
    /\ job = "Opportunity" /\ Len(out) = 2
    /\ Gated(1) /\ GateValue(1) = RFPD_ACCOUNT /\ Lookup(1) # EMPTY /\ out[1] = EMPTY
    /\ Gated(2) /\ GateValue(2) = UNITY /\ Lookup(2) # EMPTY /\ out[2] = ACCOUNT_UNITY_ID

Counted == {i \in Processed : ~Blank(i) /\ ~Gated(i)}

\* C3: a row whose gate fires while the source value is non-blank is counted in
\* neither the matched nor the unmatched count of the audit summary, is in neither
\* unique set, and has no entry in the unmapped detail of the mapping job.
C3_GatedNotCounted ==
    /\ job \in ChunkedAudits =>
          /\ stats.matched + stats.unmatched <= Cardinality(Counted)
          /\ stats.unique_matched \cup stats.unique_unmatched \subseteq
                {strip(consumed[i].val) : i \in Counted}
                \cup {lower(strip(consumed[i].val)) : i \in Counted}
    /\ job \in MappingJobs =>
          \A i \in Processed : Gated(i) => EntriesOf(i) = {}

\* C3's failing case: the Talkdesk Activity audit counts an RFPD row unmatched
C3_GatedRowCounted ==
    /\ job = "TalkdeskAudit" /\ field = "talkdesk__Case__c"
    /\ Len(out) = 1 /\ Gated(1) /\ ~Blank(1)
    /\ stats.unmatched = 1 /\ stats.blanked_by_recordtype = 1

\* C4: after any number of chunks, total is the number of rows processed and
\* matched + unmatched is the number of processed rows with a non-blank source
\* value and no firing gate.
C4_Conservation ==
    (job \in CountingJobs /\ pc # "error") =>
        /\ stats.total = Len(consumed)
        /\ stats.matched + stats.unmatched = Cardinality(Counted)

\* C4 without the rows of C3: the same conservation over the rows no gate fires on
C4_ConservationUngated ==
    (job \in CountingJobs /\ pc # "error" /\ \A i \in Processed : ~Gated(i)) =>
        /\ stats.total = Len(consumed)
        /\ stats.matched + stats.unmatched = Cardinality(Counted)

\* the counters the job would hold had it read every row so far as one chunk
\* (the initial counters while no chunk has been read)
SingleChunkStats ==
    CASE consumed = << >> /\ ~eof -> ZeroStats
      [] job = "TalkdeskAudit" /\ field = "talkdesk__User__c" ->
             TalkdeskAudit_column(consumed, columns, table, "", {}, ZeroStats, 0).stats
      [] job = "TalkdeskAudit" /\ field = "talkdesk__Case__c" ->
             TalkdeskAudit_column(consumed, columns, table,
                                  "talkdesk__Case__r.recordtype.Name",
                                  {RFPD, ALLIANCE, CXG}, ZeroStats, 0).stats
      [] job = "CaseRelationAudit" ->
             CaseRelationAudit_Case__c(consumed, columns, table, ZeroStats, 0).stats
      [] job = "OpportunityAudit" ->
             OpportunityAudit_AccountId(consumed, columns, table, ZeroStats, << >>).stats
      [] job = "CaseParentId" ->
             CaseParentId_ParentId(consumed, columns, table, ZeroStats).stats
      [] OTHER -> ZeroStats

\* C5: for a fixed source file and fixed lookup tables the summary of a field
\* (total, non-blank, matched, unmatched, their unique sets, gated counts) is the
\* same whether the rows were read as one chunk or as any split into consecutive
\* chunks.
C5_ChunkSplitIndependence ==
    (job \in CountingJobs /\ pc # "error") => stats = SingleChunkStats

\* C5 happens: three chunks of one row, a value repeated across two chunks
C5_Witness ==
    /\ job = "TalkdeskAudit" /\ pc = "done"
    /\ chunkSize = 1 /\ Len(consumed) = 3
    /\ stats.matched = 1 /\ stats.unmatched = 2
    /\ Cardinality(stats.unique_unmatched) = 1

RecordIdColumn ==
    IF job = "CaseSurveys" THEN columns \cap {"Id", "Legacy_SF_Record_ID__c"} # {}
    ELSE "Id" \in columns
DefaultAndTrack ==
    \/ job = "CaseSurveys" /\ field = "Agent__c"
    \/ job = "Talkdesk" /\ field = "talkdesk__User__c"
TrackedOnce(i) ==
    /\ Cardinality(EntriesOf(i)) = 1
    /\ \A e \in EntriesOf(i) : unmapped[e] = <<i, strip(consumed[i].val)>>

\* C6: for a field with a default and unmapped tracking (Agent__c,
\* talkdesk__User__c) a row with a non-blank source value that has no lookup
\* entry gets the default id in the output and its record id with the original
\* value in the unmapped detail, and the audit's unmatched count has one for it.
C6_DefaultAndTrack ==
    /\ DefaultAndTrack =>
          \A i \in Processed :
             (~Blank(i) /\ ~HasEntry(i)) => out[i] = DefaultOf(field) /\ TrackedOnce(i)
    /\ (job = "TalkdeskAudit" /\ field = "talkdesk__User__c") =>
          stats.unmatched = Cardinality({i \in Processed : ~Blank(i) /\ Lookup(i) = EMPTY})

\* C6 for the source files that carry the record id column
C6_DefaultAndTrackWithRecordId ==
    /\ (DefaultAndTrack /\ RecordIdColumn) =>
          \A i \in Processed :
             (~Blank(i) /\ ~HasEntry(i)) => out[i] = DefaultOf(field) /\ TrackedOnce(i)
    /\ (job = "TalkdeskAudit" /\ field = "talkdesk__User__c") =>
          stats.unmatched = Cardinality({i \in Processed : ~Blank(i) /\ Lookup(i) = EMPTY})

\* C6's failing case: no Id column, the default is written and nothing is tracked
C6_DefaultedUntracked ==
    /\ job = "Talkdesk" /\ field = "talkdesk__User__c" /\ "Id" \notin columns
    /\ Len(out) = 1 /\ ~Blank(1) /\ ~HasEntry(1)
    /\ out[1] = DEFAULT_CREATEDBY_LASTMODIFIED_ID
    /\ unmapped = << >>

TrackedField ==
    /\ job \in MappingJobs
    /\ field \notin StandardUserFields
    /\ ~(field = "MessagingEndUserId" /\ DOMAIN table = {})
Unresolved(i) == ~Blank(i) /\ ~Gated(i) /\ Lookup(i) = EMPTY

\* C7: at the end of a mapping run the unmapped detail of a tracked field has
\* exactly one entry (record id, original value) for each row whose source value
\* was non-blank, not gated and resolved to empty, and no other entry, whatever
\* other columns the source file has.
C7_UnmappedDetailExact ==
    (TrackedField /\ pc = "done") =>
        /\ \A i \in Processed : IF Unresolved(i) THEN TrackedOnce(i) ELSE EntriesOf(i) = {}
        /\ Len(unmapped) = Cardinality({i \in Processed : Unresolved(i)})

\* C7 for the source files that carry the record id column
C7_UnmappedDetailExactWithRecordId ==
    (TrackedField /\ pc = "done" /\ RecordIdColumn) =>
        /\ \A i \in Processed : IF Unresolved(i) THEN TrackedOnce(i) ELSE EntriesOf(i) = {}
        /\ Len(unmapped) = Cardinality({i \in Processed : Unresolved(i)})

\* C7's failing case: a finished Junction run over a file without an Id column
\* has an unresolved row and an empty unmapped detail
C7_UnresolvedUntracked ==
    /\ job = "Junction" /\ pc = "done" /\ "Id" \notin columns
    /\ Len(out) = 1 /\ Unresolved(1)
    /\ unmapped = << >>

\* two processed rows hold the same identifier: equal after trim and lower-case
SameIdentifier(i, j) == lower(strip(consumed[i].val)) = lower(strip(consumed[j].val))
\* the detail of a chunked audit carries the flag of a row of the first chunk on the
\* row's own line
FlagOnOwnLine(i) == job \in ChunkedAudits => i <= chunkSize
\* what the resolution of row i gave: the mapped cell, or the audit's flag
Outcome(i) ==
    IF field = "MessagingEndUserId" /\ DOMAIN table = {} THEN EMPTY ELSE out[i]
Compared == {i \in Processed : ~Gated(i) /\ FlagOnOwnLine(i)}
Miss == {EMPTY, <<"N">>, DefaultOf(field)}

\* C13: in every job, the E-Commerce contact audit included, two raw values that
\* differ only in letter case or surrounding whitespace resolve identically (the
\* same entry or both miss), and an empty or whitespace-only value hits no entry.
C13_NormalizedResolution ==
    /\ \A i, j \in Compared : SameIdentifier(i, j) => Outcome(i) = Outcome(j)
    /\ \A i \in Compared : Blank(i) => Outcome(i) \in Miss

\* C13 in the chunked mapping and audit jobs
C13_NormalizedResolutionChunked ==
    job # "ECommerceAudit" =>
        /\ \A i, j \in Compared : SameIdentifier(i, j) => Outcome(i) = Outcome(j)
        /\ \A i \in Compared : Blank(i) => Outcome(i) \in Miss

\* C13's failing case: the E-Commerce contact audit flags one spelling of a user id
\* found and another spelling of it not found
C13_SpellingDecides ==
    /\ job = "ECommerceAudit" /\ pc = "done" /\ Len(out) = 2
    /\ consumed[1].val = <<" ", "A">> /\ consumed[2].val = <<"a">>
    /\ out = << <<"N">>, <<"Y">> >>

HeaderLines == {i \in 1..Len(lines) : lines[i].kind = "header"}
DataLines == {i \in 1..Len(lines) : lines[i].kind = "row"}
Streaming == job \in (MappingJobs \cup ChunkedAudits) \ {"OpportunityAudit"}

OneLinePerRow == IF header_written THEN << HeaderLine >> \o RowLines(consumed) ELSE << >>

\* C15: the mapped output holds exactly one row per input row, in input order: the
\* rows of a chunk follow those of the chunks before it and keep their order, and
\* no row is dropped, duplicated or added.
C15_OneRowPerInputRow ==
    (job \in MappingJobs /\ pc \in {"run", "done"}) => lines = OneLinePerRow

\* C15 for every source file that has the column of the mapped field
C15_OneRowPerInputRowFieldPresent ==
    (/\ job \in MappingJobs /\ pc \in {"run", "done"}
     /\ ~(job = "CaseParentId" /\ "ParentId" \notin columns))
    => lines = OneLinePerRow

\* C15's failing case: Case ParentId over a file without a ParentId column writes a
\* line of no source row in front of the second chunk's row
C15_ExtraLines ==
    /\ job = "CaseParentId" /\ pc = "done" /\ columns = {"Id"} /\ chunkSize = 1
    /\ Len(consumed) = 2
    /\ lines = << HeaderLine, [kind |-> "row", id |-> 1], NoRowLine, [kind |-> "row", id |-> 2] >>

\* nothing of the source has been read and nothing has been written by this run
NothingDone ==
    /\ consumed = << >> /\ out = << >> /\ ~header_written /\ headers = 0
    /\ lines = << StaleLine >> /\ unmapped = << >> /\ stats = ZeroStats

\* C16: when a lookup source lacks its key column or its value column the job stops
\* with an error before the first source row is read and before any output is
\* written; it never goes on with an empty or partial table.
C16_MissingColumnStops ==
    (pc # "start" /\ ~lookup_columns) => (pc = "error" /\ NothingDone)

\* C16 in the jobs whose loaders raise: every job but the Opportunity audit
C16_MissingColumnStopsRaisingLoaders ==
    (pc # "start" /\ ~lookup_columns /\ job # "OpportunityAudit") =>
        (pc = "error" /\ NothingDone)

\* C16's failing case: the Opportunity audit completes over an empty account table
\* and reports the row unmatched
C16_AuditedWithEmptyTable ==
    /\ job = "OpportunityAudit" /\ ~lookup_columns /\ pc = "done"
    /\ table = EmptyDict
    /\ Len(consumed) = 1 /\ stats.unmatched = 1
    /\ Len(lines) = 2

\* the rows of the chunk a run stopped on
Failed == IF pc = "error" THEN (Len(out) + 1)..Len(consumed) ELSE {}
\* what stops a run for a reason other than a resolution miss: Case ParentId without
\* its Id column, or a gate that fires in the chunk
OtherCause ==
    \/ job = "CaseParentId" /\ "Id" \notin columns
    \/ \E i \in Failed : Gated(i)

\* C17: a resolution miss (a non-blank source value without a table entry) never
\* raises an error and never aborts the run, whatever columns the source file has
\* next to the field: no run stops on a chunk for the misses in it.
C17_MissNeverAborts ==
    (pc = "error" /\ lookup_columns) => OtherCause

\* C17 for the source files that carry the Id column: no chunk stops a run
C17_MissNeverAbortsWithId ==
    (lookup_columns /\ "Id" \in columns) => pc # "error"

\* C17's failing case: Messaging Session over a file without an Id column stops on
\* the first MessagingEndUserId that has no entry
C17_AbortedOnMiss ==
    /\ job = "Messaging" /\ field = "MessagingEndUserId" /\ "Id" \notin columns
    /\ pc = "error" /\ lookup_columns
    /\ Len(consumed) = 1 /\ Unresolved(1)
    /\ out = << >> /\ DataLines = {}

\* the fields a mapping job keeps an unmapped detail file for
HasUnmappedFile == job \in MappingJobs /\ field \notin StandardUserFields
StaleLines == {i \in 1..Len(lines) : lines[i].kind = "stale"}

\* C18: after a run completes every output artifact of the job reflects only that
\* run: the main output holds nothing of an earlier run, and neither does a
\* field's unmapped detail file, also when the field has no unmapped rows this time.
C18_OnlyThisRun ==
    pc = "done" =>
        /\ StaleLines = {}
        /\ HasUnmappedFile => unmapped_file # "stale"

\* C18 for the main output, and for the unmapped detail of a field with unmapped rows
C18_OnlyThisRunMainOutput ==
    pc = "done" =>
        /\ StaleLines = {}
        /\ (HasUnmappedFile /\ unmapped # << >>) => unmapped_file = "written"

\* C18's failing case: a completed Junction run in which every Case__c resolved
\* leaves the unmapped detail file of the earlier run in place
C18_StaleUnmappedFile ==
    /\ job = "Junction" /\ pc = "done" /\ "Id" \in columns
    /\ Len(out) = 2 /\ \A i \in Processed : ~Blank(i) /\ Lookup(i) # EMPTY
    /\ unmapped = << >> /\ unmapped_file = "stale"
    /\ StaleLines = {}

\* C19: at every point of a run the number of source rows held in working state is
\* at most one chunk (chunkSize rows); only the audit state grows with the input.
C19_OneChunkInMemory == held <= chunkSize

\* C19 in the loops that write each chunk and let it go
C19_OneChunkInMemoryStreaming ==
    (Streaming /\ pc # "done") => held <= chunkSize

\* C19's failing case: the Opportunity audit, reading one row at a time, holds a
\* detail record for each of the two rows read so far
C19_DetailRecordsKept ==
    /\ job = "OpportunityAudit" /\ pc = "run" /\ chunkSize = 1
    /\ Len(consumed) = 2 /\ held = 2
    /\ DataLines = {}

GatedAudits ==
    \/ job = "TalkdeskAudit" /\ field = "talkdesk__Case__c"
    \/ job \in {"CaseRelationAudit", "OpportunityAudit"}

\* what the mapping job of the audited object does with the rows read so far
\* (taken with an Id column, which the blanked detail needs)
MappingOf ==
    CASE job = "TalkdeskAudit" -> talkdesk__Case__c(consumed, columns \cup {"Id"}, table)
      [] job = "CaseRelationAudit" -> CaseRelation_Case__c(consumed, columns \cup {"Id"}, table)
      [] OTHER -> Opportunity_AccountId(consumed, columns \cup {"Id"}, table)

\* the rows on which the mapping job's gate fires with value g: rows of that record
\* type that it sets to the gate's constant, or blanks and lists as blanked
GateFiredRows(g) ==
    {i \in 1..Len(consumed) :
        /\ GateValue(i) = g
        /\ IF g \in DOMAIN ConstantGate
           THEN MappingOf.outs[i] = ConstantGate[g]
           ELSE \E e \in 1..Len(MappingOf.blk) : MappingOf.blk[e][1] = i}

\* the gated count of value g in the audit summary (Blanked_<value>; the Opportunity
\* audit reports the single count Blanked_By_RFPD_RecordType)
ReportedGated(g) ==
    IF job = "OpportunityAudit"
    THEN (IF g = RFPD_ACCOUNT THEN stats.blanked_by_recordtype ELSE 0)
    ELSE dict_get(stats.blanked_detail, g, 0)

\* C20: for each gated field and each gate value, the gated count of the audit
\* summary is the number of rows on which the mapping job's gate fires with that
\* value: the rows the mapping job blanks or sets to the gate's constant.
C20_GatedCountsAgree ==
    GatedAudits =>
        \A g \in BlankGate \cup DOMAIN ConstantGate :
           ReportedGated(g) = Cardinality(GateFiredRows(g))

\* C20 for the blanking gates of the Talkdesk Activity audit and of the Opportunity audit
C20_GatedCountsAgreeBlanking ==
    (GatedAudits /\ job # "CaseRelationAudit") =>
        \A g \in BlankGate : ReportedGated(g) = Cardinality(GateFiredRows(g))

\* C20's failing case: the Case Relation audit finds the record-type column under
\* another spelling and counts a row blanked that the mapping job resolves
C20_CountedButNotGated ==
    /\ job = "CaseRelationAudit" /\ "talkdesk__Case__r.RecordType.Name" \in columns
    /\ Len(consumed) = 1 /\ ~Blank(1) /\ GateValue(1) = RFPD
    /\ ReportedGated(RFPD) = 1
    /\ GateFiredRows(RFPD) = {}
    /\ MappingOf.outs[1] = Lookup(1) /\ Lookup(1) # EMPTY

\* a set of counted values holds one member for each normalized key
OnePerKey(S) == \A a \in S : \A b \in S : lower(strip(a)) = lower(strip(b)) => a = b

\* C21: the unique non-blank, unique matched and unique unmatched figures of the
\* audit summary count distinct normalized keys: source values that differ only in
\* letter case or surrounding whitespace are counted once.
C21_UniqueByNormalizedKey ==
    job \in ChunkedAudits =>
        /\ OnePerKey(stats.unique_nonblank)
        /\ OnePerKey(stats.unique_matched)
        /\ OnePerKey(stats.unique_unmatched)

\* C21 for the Opportunity audit, which lower-cases a value before it enters a set
C21_UniqueByNormalizedKeyOpportunity ==
    job = "OpportunityAudit" =>
        /\ OnePerKey(stats.unique_nonblank)
        /\ OnePerKey(stats.unique_matched)
        /\ OnePerKey(stats.unique_unmatched)

\* C21's failing case: the Talkdesk Activity audit has read "a" and " A", both
\* matched by the same lookup entry, and reports two unique matched values
C21_CountedTwice ==
    /\ job = "TalkdeskAudit" /\ field = "talkdesk__User__c" /\ pc = "done"
    /\ Len(consumed) = 2
    /\ consumed[1].val = <<"a">> /\ consumed[2].val = <<" ", "A">>
    /\ stats.matched = 2
    /\ Cardinality(stats.unique_matched) = 2
    /\ Cardinality(stats.unique_nonblank) = 2

\* the Flag the detail report owes row i: blank for a blank source value, BLANKED
\* for a non-blank value the Case Relation audit gates, else "Y" or "N" by the
\* lookup value
ExpectedFlag(i) ==
    IF Blank(i) THEN EMPTY
    ELSE IF job = "CaseRelationAudit" /\ Gated(i) THEN <<"B", "L", "A", "N", "K", "E", "D">>
    ELSE IF Lookup(i) # EMPTY THEN <<"Y">> ELSE <<"N">>

\* C24: in every audit detail report, each row of every chunk (not only of the
\* first chunk) carries a Flag that is blank when the source value is blank, "Y"
\* when the lookup value is non-empty and "N" when the source value is non-blank
\* and the lookup value is empty (BLANKED for a gated non-blank value in the Case
\* Relation audit), on the row of the source value it was computed from.
C24_FlagOnEveryRow ==
    job \in {"TalkdeskAudit", "CaseRelationAudit"} =>
        \A i \in Processed : out[i] = ExpectedFlag(i)

\* C24 for the rows of the first chunk
C24_FlagOnEveryRowFirstChunk ==
    job \in {"TalkdeskAudit", "CaseRelationAudit"} =>
        \A i \in Processed : i <= chunkSize => out[i] = ExpectedFlag(i)

\* C24's failing case: the second chunk's row has a value the lookup resolves and
\* an empty Flag
C24_SecondChunkUnflagged ==
    /\ job = "TalkdeskAudit" /\ pc = "done" /\ chunkSize = 1
    /\ Len(out) = 2
    /\ ~Blank(2) /\ Lookup(2) # EMPTY
    /\ out[1] = ExpectedFlag(1)
    /\ out[2] = EMPTY

MappingUnmappedRows ==
    {i \in 1..Len(consumed) : \E e \in 1..Len(MappingOf.unm) : MappingOf.unm[e][1] = i}

\* C26: for the same source file and the same lookup files the audit job and its
\* mapping job agree on a field: a row is flagged "N" by the audit exactly when the
\* mapping job records the row in the field's unmapped detail; this covers
\* Opportunity AccountId under the record-type gates RFPD Account, Unity and
\* Arrow / Verical.
C26_AuditAgreesWithMapping ==
    (job = "OpportunityAudit" /\ lookup_columns) =>
        \A i \in Processed : (out[i] = <<"N">>) <=> (i \in MappingUnmappedRows)

\* C26 for the rows on which no constant gate of the mapping job fires
C26_AuditAgreesWithMappingNoConstantGate ==
    (job = "OpportunityAudit" /\ lookup_columns) =>
        \A i \in Processed :
           ~(Gated(i) /\ GateValue(i) \in DOMAIN ConstantGate) =>
              ((out[i] = <<"N">>) <=> (i \in MappingUnmappedRows))

\* C26's failing case: a Unity row whose AccountId the lookup misses is flagged "N"
\* by the audit, while the mapping job sets the Unity account and records nothing
C26_FlaggedButMapped ==
    /\ job = "OpportunityAudit" /\ pc = "done" /\ lookup_columns
    /\ Len(out) = 1
    /\ Gated(1) /\ GateValue(1) = UNITY /\ ~Blank(1) /\ Lookup(1) = EMPTY
    /\ out[1] = <<"N">>
    /\ MappingOf.outs[1] = ACCOUNT_UNITY_ID
    /\ MappingOf.unm = << >>

\* the values a lookup-mapped field may hold in the mapped output: blank, a value of
\* its lookup table, its default, a gate constant
Range(d) == {d[k] : k \in DOMAIN d}
MappedValues == {EMPTY} \cup Range(table) \cup {DefaultOf(field)} \cup Range(ConstantGate)

\* C27: in the mapped output every lookup-mapped reference field holds only a value
\* taken from its lookup table, a configured default or gate constant, or blank,
\* never the original source-system identifier, also when the field's lookup file
\* is missing or has no rows (MessagingEndUserId in the Messaging Session job).
C27_NoSourceIdInOutput ==
    job \in MappingJobs => \A i \in Processed : out[i] \in MappedValues

\* C27 for every field whose lookup has an entry, and every field but MessagingEndUserId
C27_NoSourceIdInOutputLoadedLookup ==
    (job \in MappingJobs /\ ~(field = "MessagingEndUserId" /\ DOMAIN table = {})) =>
        \A i \in Processed : out[i] \in MappedValues

\* C27's failing case: the end-user lookup has no rows and the finished Messaging
\* Session output carries the source-system id of the row
C27_SourceIdKept ==
    /\ job = "Messaging" /\ field = "MessagingEndUserId" /\ pc = "done"
    /\ DOMAIN table = {}
    /\ Len(out) = 1 /\ consumed[1].val = <<"a">>
    /\ out[1] = <<"a">>

(***************************************************************************)
(* split_csv and validate_data of the Case Survey Junction job.  A row of  *)
(* the cleaned frame is a sequence of cells; the size of a csv file is the *)
(* number of characters of its header line and of its row lines.           *)
(***************************************************************************)
MaxSplitRows == 4    \* rows of the cleaned frame that is split
MaxPartRows == 3     \* largest max_rows tried
MaxDirFiles == 2     \* files of a split directory handed to validate_data
MaxFileRows == 3     \* rows of a file handed to validate_data

\* the rows split: one column, a short and a long cell
SplitRows == { << <<"a">> >>, << <<"b">> >>, << <<"a", "a", "a", "a">> >> }
\* the size limits tried, in characters
SizeLimits == {4, 6, 9}

line_size(row) ==
    LET RECURSIVE cells_size(_)
        cells_size(i) == IF i > Len(row) THEN 0 ELSE Len(row[i]) + 1 + cells_size(i + 1)
    IN cells_size(1)
\* os.path.getsize of a file written by to_csv(index=False): a header line of one
\* character per column, then the row lines
RECURSIVE rows_size(_)
rows_size(rows) == IF rows = << >> THEN 0 ELSE line_size(Head(rows)) + rows_size(Tail(rows))
getsize(rows) == 2 + rows_size(rows)

\* df.iloc[start:end]
iloc(frame, s, e) == SubSeq(frame, s + 1, e)
min(a, b) == IF a <= b THEN a ELSE b

\* a shrink that rounds the new row count up
new_chunk_size_rounded_up(n, size, limit) ==
    {(n * limit + size - 1) \div size}
\* new_chunk_size = int((end - start) / (size_mb / max_allowed_size)), at least 1.
\* The two divisions are floating-point divisions: when the exact quotient is a
\* whole number the rounded one may fall just below it.
new_chunk_size(n, size, limit) ==
    LET exact == (n * limit) \div size
        below == IF (n * limit) % size = 0 THEN {exact - 1} ELSE {}
    IN {IF k < 1 THEN 1 ELSE k : k \in {exact} \cup below}

\* start = end, the row count that starts after a finished part
next_start_by_max_rows(s, e, m) == s + m
next_start(s, e, m) == e

\* pd.read_csv(path, dtype=str): an empty cell and the text NULL are read as NaN
NaN == <<"nan">>
read_cell(cell) == IF cell \in {EMPTY, <<"N", "U", "L", "L">>} THEN NaN ELSE cell
read_csv(rows) == [i \in 1..Len(rows) |-> [c \in 1..Len(rows[i]) |-> read_cell(rows[i][c])]]

\* hash_row: the md5 of "|".join(str(v) if pd.notna(v) else "NULL" for v in row);
\* the digest is taken to be as good as the joined text
RECURSIVE join(_, _)
join(row, i) ==
    IF i > Len(row) THEN << >>
    ELSE (IF row[i] = NaN THEN <<"N", "U", "L", "L">> ELSE row[i])
         \o (IF i < Len(row) THEN <<"|">> ELSE << >>) \o join(row, i + 1)
hash_row(row) == join(row, 1)

\* the rows of all csv files of the directory, file after file
RECURSIVE listdir_rows(_, _)
listdir_rows(dir, k) ==
    IF k > Len(dir) THEN << >> ELSE read_csv(dir[k]) \o listdir_rows(dir, k + 1)

\* validate_data: the two messages it prints
validate_data(cleaned_file, split_dir) ==
    LET df_original == read_csv(cleaned_file)
        orig_rows == Len(df_original)
        orig_hashes == {hash_row(df_original[i]) : i \in 1..Len(df_original)}
        combined == listdir_rows(split_dir, 1)
        combined_rows == Len(combined)
        combined_hashes == {hash_row(combined[i]) : i \in 1..Len(combined)}
    IN [rows_match |-> orig_rows = combined_rows,
        integrity |-> orig_hashes = combined_hashes]

LookupIdle ==
    /\ lpc = "idle" /\ lkind = "none" /\ lfile = << >> /\ ldict = EmptyDict
    /\ lquery = EMPTY /\ lresult = EMPTY

\* main() removes the split directory and creates it again, then calls split_csv
SplitInit ==
    /\ spc = "loop"
    /\ split_df \in SeqsUpTo(SplitRows, MaxSplitRows)
    /\ max_rows \in 1..MaxPartRows
    /\ max_allowed_size \in SizeLimits
    /\ start = 0 /\ end = 0 /\ part = 1
    /\ files = << >> /\ size_mb = 0 /\ passes = 0 /\ report = << >>
    /\ LookupIdle /\ PipelineIdle /\ FrameIdle

\* chunk.to_csv(output_file): the part's file is written, or written again
write_part(dir, k, rows) ==
    IF k <= Len(dir) THEN [dir EXCEPT ![k] = rows] ELSE Append(dir, rows)

\* while start < rows: end = min(start + max_rows, rows); write the part; take its size
WritePart ==
    /\ spc = "loop" /\ start < Len(split_df)
    /\ end' = min(start + max_rows, Len(split_df))
    /\ files' = write_part(files, part, iloc(split_df, start, end'))
    /\ size_mb' = getsize(iloc(split_df, start, end'))
    /\ spc' = "sized"
    /\ UNCHANGED <<split_df, max_rows, max_allowed_size, start, part, passes, report>>
    /\ UNCHANGED <<lvars, pvars, fvars>>

\* one pass of: while size_mb > max_allowed_size and (end - start) > 1
Shrink ==
    /\ spc = "sized"
    /\ size_mb > max_allowed_size /\ (end - start) > 1
    /\ passes < MaxSplitRows
    /\ \E n \in new_chunk_size(end - start, size_mb, max_allowed_size) :
          /\ end' = start + n
          /\ files' = write_part(files, part, iloc(split_df, start, start + n))
          /\ size_mb' = getsize(iloc(split_df, start, start + n))
    /\ passes' = passes + 1
    /\ UNCHANGED <<spc, split_df, max_rows, max_allowed_size, start, part, report>>
    /\ UNCHANGED <<lvars, pvars, fvars>>

\* the part is finished: start = end; part += 1
NextPart ==
    /\ spc = "sized"
    /\ ~(size_mb > max_allowed_size /\ (end - start) > 1)
    /\ start' = next_start(start, end, max_rows)
    /\ part' = part + 1
    /\ spc' = "loop"
    /\ UNCHANGED <<split_df, max_rows, max_allowed_size, end, files, size_mb, passes, report>>
    /\ UNCHANGED <<lvars, pvars, fvars>>

\* start >= rows: split_csv returns
Return ==
    /\ spc = "loop" /\ start >= Len(split_df)
    /\ spc' = "done"
    /\ UNCHANGED <<split_df, max_rows, max_allowed_size, start, end, part, files, size_mb,
                   passes, report>>
    /\ UNCHANGED <<lvars, pvars, fvars>>

\* validate_data(cleaned_output_file, SPLIT_DIR)
Validate ==
    /\ spc \in {"done", "given"}
    /\ report' = validate_data(split_df, files)
    /\ spc' = "validated"
    /\ UNCHANGED <<split_df, max_rows, max_allowed_size, start, end, part, files, size_mb,
                   passes>>
    /\ UNCHANGED <<lvars, pvars, fvars>>

SplitNext == WritePart \/ Shrink \/ NextPart \/ Return \/ Validate

SplitSpec == SplitInit /\ [][SplitNext]_vars

\* split_csv is not held up: a step that can be taken is taken
SplitLive == SplitInit /\ [][SplitNext]_vars /\ WF_vars(SplitNext)

\* validate_data as a function of a cleaned file and of a directory of csv files
ValidateRows ==
    { << <<"a">>, <<"c">> >>, << <<"b">>, <<"c">> >>, << EMPTY, <<"c">> >> }
ValidateFiles == SeqsUpTo(ValidateRows, MaxFileRows)
ValidateInit ==
    /\ spc = "given"
    /\ split_df \in ValidateFiles
    /\ files \in SeqsUpTo(ValidateFiles, MaxDirFiles)
    /\ max_rows = 1 /\ max_allowed_size = 1
    /\ start = 0 /\ end = 0 /\ part = 1 /\ size_mb = 0 /\ passes = 0 /\ report = << >>
    /\ LookupIdle /\ PipelineIdle /\ FrameIdle

ValidateNext == Validate

ValidateSpec == ValidateInit /\ [][ValidateNext]_vars

(***************************************************************************)
(* Properties of split_csv and validate_data.                              *)
(***************************************************************************)
\* the rows of the first k parts, part after part
RECURSIVE PartsRows(_)
PartsRows(k) == IF k = 0 THEN << >> ELSE PartsRows(k - 1) \o files[k]
\* the parts that are finished: all of them but the one being written and sized
Finished == IF spc = "sized" THEN Len(files) - 1 ELSE Len(files)

\* C28: split_csv writes parts that partition the data frame: part k holds a
\* contiguous run of rows that starts exactly where part k-1 ended, every part
\* holds at least 1 and at most max_rows rows, and the parts concatenated in part
\* order are the input rows in order, none lost or repeated, also when a part was
\* shrunk and written again because its file exceeded the size limit.
C28_PartsPartition ==
    /\ start <= Len(split_df) /\ Len(PartsRows(Len(files))) <= Len(split_df)
    /\ \A k \in 1..Len(files) :
          /\ 1 <= Len(files[k]) /\ Len(files[k]) <= max_rows
          /\ files[k] = iloc(split_df, Len(PartsRows(k - 1)), Len(PartsRows(k)))
    /\ Len(files) = (IF spc = "sized" THEN part ELSE part - 1)
    /\ PartsRows(Finished) = iloc(split_df, 0, start)
    /\ spc \in {"done", "validated"} => PartsRows(Len(files)) = split_df

\* C28 happens: split_csv has returned after three parts, the first of them shrunk
\* below max_rows because of its size
C28_Witness ==
    /\ spc = "done" /\ passes >= 1
    /\ Len(files) = 3 /\ Len(split_df) = 4 /\ max_rows = 3
    /\ Len(files[1]) < max_rows
    /\ PartsRows(3) = split_df

\* C29: split_csv terminates for every data frame and every max_rows >= 1: each
\* pass of the size-shrinking loop strictly reduces the part's row count and keeps
\* it at least 1 (so the loop never needs more passes than the frame has rows), and
\* each finished part advances the start position by at least one row, until all
\* rows are written and split_csv returns.
C29_SplitTerminates ==
    /\ [][Shrink => (end' - start >= 1 /\ end' - start < end - start)]_vars
    /\ [][NextPart => (start' >= start + 1 /\ start' <= Len(split_df))]_vars
    /\ []((spc = "sized" /\ size_mb > max_allowed_size /\ (end - start) > 1)
             => passes < MaxSplitRows)
    /\ <>(spc = "done")

\* C29 happens: split_csv has returned after two shrinking passes on the way
C29_Witness ==
    /\ spc = "done" /\ passes >= 2
    /\ start = Len(split_df) /\ Len(split_df) = MaxSplitRows
    /\ Len(files) >= 2

\* the number of times row r stands in a sequence of rows
Occurrences(rows, r) == Cardinality({i \in 1..Len(rows) : rows[i] = r})
RowsOf(rows) == {rows[i] : i \in 1..Len(rows)}
\* the split files taken together hold the rows of the cleaned file, each as often
SameRows ==
    LET cleaned == read_csv(split_df)
        combined == listdir_rows(files, 1)
    IN \A r \in RowsOf(cleaned) \cup RowsOf(combined) :
          Occurrences(cleaned, r) = Occurrences(combined, r)
Passed == spc = "validated" /\ report.rows_match /\ report.integrity

\* C30: validate_data reports a matching row count together with "Data integrity
\* passed" only if the split files taken together hold exactly the same rows, with
\* the same multiplicities, as the cleaned file.
C30_ValidationSound == Passed => SameRows

\* what the two messages do establish: as many rows, and the same set of rows
C30_ValidationSameCountSameSet ==
    Passed =>
        /\ Len(split_df) = Len(listdir_rows(files, 1))
        /\ RowsOf(read_csv(split_df)) = RowsOf(listdir_rows(files, 1))

\* validate_data as the job calls it, on the parts split_csv has just written to the
\* emptied directory: both messages report success, and rightly
ValidationAfterSplit == spc = "validated" => (Passed /\ SameRows)

\* C30's failing case: the cleaned file holds one row twice and another once, the
\* split file holds the first once and the other twice, and both messages report
\* success
C30_PassedWithOtherMultiplicities ==
    /\ Passed
    /\ split_df = << << <<"a">>, <<"c">> >>, << <<"a">>, <<"c">> >>, << <<"b">>, <<"c">> >> >>
    /\ files = << << << <<"a">>, <<"c">> >>, << <<"b">>, <<"c">> >>, << <<"b">>, <<"c">> >> >> >>
    /\ ~SameRows

(***************************************************************************)
(* FrameSpec: the whole rows of one chunk through a mapping script, every  *)
(* column of the file followed.                                            *)
(***************************************************************************)
MaxFrameRows == 2    \* rows of the chunk

\* a chunk is [cols |-> its columns in file order, rows |-> its rows, column -> cell]
columns_of(chunk) == {chunk.cols[i] : i \in 1..Len(chunk.cols)}
column(chunk, col) == [i \in 1..Len(chunk.rows) |-> chunk.rows[i][col]]
stripped(vals) == [i \in DOMAIN vals |-> strip(vals[i])]

\* chunk.fillna("")
fillna(chunk) ==
    [cols |-> chunk.cols,
     rows |-> [i \in 1..Len(chunk.rows) |->
                 [c \in columns_of(chunk) |->
                     IF chunk.rows[i][c] = NaN THEN EMPTY ELSE chunk.rows[i][c]]]]

\* chunk[col] = vals: an existing column is overwritten in place, a new one goes last
assign(chunk, col, vals) ==
    [cols |-> IF col \in columns_of(chunk) THEN chunk.cols ELSE Append(chunk.cols, col),
     rows |-> [i \in 1..Len(chunk.rows) |->
                 [c \in columns_of(chunk) \cup {col} |->
                     IF c = col THEN vals[i] ELSE chunk.rows[i][c]]]]

\* chunk.drop(columns=[col], inplace=True)
drop(chunk, col) ==
    [cols |-> SelectSeq(chunk.cols, LAMBDA c : c # col),
     rows |-> [i \in 1..Len(chunk.rows) |->
                 [c \in columns_of(chunk) \ {col} |-> chunk.rows[i][c]]]]

\* chunk.rename(columns={old: new}, inplace=True), for a frame without a column new
rename(chunk, old, new) ==
    [cols |-> [k \in 1..Len(chunk.cols) |-> IF chunk.cols[k] = old THEN new ELSE chunk.cols[k]],
     rows |-> [i \in 1..Len(chunk.rows) |->
                 [c \in (columns_of(chunk) \ {old}) \cup {new} |->
                     IF c = new THEN chunk.rows[i][old] ELSE chunk.rows[i][c]]]]

\* original_values: the stripped cells of the tracked columns the chunk has
original_values(chunk, keys) ==
    [col \in keys \cap columns_of(chunk) |-> stripped(column(chunk, col))]

\* original_values.get(col, pd.Series([""] * len(chunk)))
original_get(st, col) ==
    IF col \in DOMAIN st.original_values THEN st.original_values[col]
    ELSE [i \in 1..Len(st.chunk.rows) |-> EMPTY]

\* the (Id, value) pairs of the rows a mask selects, in row order; the Id is the
\* chunk's Id cell, or "" for a chunk without an Id column
id_and_value(chunk, mask, vals) ==
    LET RECURSIVE from(_)
        from(i) ==
            IF i > Len(chunk.rows) THEN << >>
            ELSE (IF mask[i]
                  THEN << << IF "Id" \in columns_of(chunk) THEN chunk.rows[i]["Id"] ELSE EMPTY,
                             vals[i] >> >>
                  ELSE << >>) \o from(i + 1)
    IN from(1)

\* the state of one pass of the chunk loop
Pass(chunk, keys, blanked_keys) ==
    [chunk |-> chunk,
     original_values |-> original_values(chunk, keys),
     unmapped_data |-> [k \in keys |-> << >>],
     blanked_data |-> [k \in blanked_keys |-> << >>]]

\* the lookups of the run, loaded before the loop
frame_user_lookup ==
    load_user_lookup(<< UserRow(<<"a">>, <<"u">>, <<"U">>, <<"x">>, <<"b">>, <<"r">>) >>)
frame_user_lookup_dict == load_simple_lookup(<< [k |-> <<"A">>, v |-> <<"x">>] >>, FALSE)
frame_dict_account == load_simple_lookup(<< [k |-> <<"a">>, v |-> <<"y">>] >>, FALSE)
frame_dict_contact == load_simple_lookup(<< [k |-> <<"a">>, v |-> <<"z">>] >>, FALSE)
frame_dict_messaging_enduser == load_simple_lookup(<< [k |-> <<"a">>, v |-> <<"m">>] >>, FALSE)

(***************************************************************************)
(* account_mapping_uat.py, the body of the chunk loop                      *)
(***************************************************************************)
AccountUnmappedKeys == {"ParentId", "Ops_Agent__c", "Expediter__c", "Primary_Supplier_Contact__c"}

\* STEP 2, one standard user column: map_user_id, then the default on a blank result
Account_standard_user(st, col, default) ==
    IF col \notin columns_of(st.chunk) THEN st
    ELSE LET looked == [i \in 1..Len(st.chunk.rows) |->
                          map_user_id(frame_user_lookup, st.chunk.rows[i][col]).val]
         IN [st EXCEPT !.chunk =
                assign(@, col, [i \in 1..Len(st.chunk.rows) |->
                                   IF strip(looked[i]) = EMPTY THEN default ELSE looked[i]])]

\* STEP 3, one custom user column: blank stays blank, a miss is left blank and tracked
Account_custom_user(st, col) ==
    IF col \notin columns_of(st.chunk) THEN st
    ELSE LET original == original_get(st, col)
             looked == [i \in 1..Len(st.chunk.rows) |->
                          map_user_id(frame_user_lookup, st.chunk.rows[i][col]).val]
             mapped == stripped(looked)
             unmapped_mask == [i \in 1..Len(st.chunk.rows) |->
                                 original[i] # EMPTY /\ mapped[i] = EMPTY]
         IN [st EXCEPT !.chunk = assign(@, col, looked),
                       !.unmapped_data[col] =
                           IF any(unmapped_mask)
                           THEN @ \o id_and_value(st.chunk, unmapped_mask, original)
                           ELSE @]

\* STEP 5: the account lookup of ParentId
Account_ParentId(st) ==
    IF "ParentId" \notin columns_of(st.chunk) THEN st
    ELSE LET original == original_get(st, "ParentId")
             looked == [i \in 1..Len(st.chunk.rows) |->
                          resolve(frame_dict_account, st.chunk.rows[i]["ParentId"], FALSE)]
             mapped == stripped(looked)
             unmapped_mask == [i \in 1..Len(st.chunk.rows) |->
                                 original[i] # EMPTY /\ mapped[i] = EMPTY]
         IN [st EXCEPT !.chunk = assign(@, "ParentId", looked),
                       !.unmapped_data["ParentId"] =
                           IF any(unmapped_mask)
                           THEN @ \o id_and_value(st.chunk, unmapped_mask, original)
                           ELSE @]

\* STEP 1: an SMR__c column of the source is deleted
Account_drop_SMR__c(st) ==
    IF "SMR__c" \in columns_of(st.chunk) THEN [st EXCEPT !.chunk = drop(@, "SMR__c")] ELSE st
\* STEP 4: Ops_Agent__c becomes SMR__c
Account_rename_Ops_Agent__c(st) ==
    IF "Ops_Agent__c" \in columns_of(st.chunk)
    THEN [st EXCEPT !.chunk = rename(@, "Ops_Agent__c", "SMR__c")] ELSE st

\* the loop body on a chunk with the columns of the model (the blocks of CreatedById,
\* LastModifiedById, Expediter__c, Primary_Supplier_Contact__c and RecordTypeId are
\* skipped by their "if col in chunk.columns")
account_mapping_uat(chunk) ==
    LET st0 == Pass(fillna(chunk), AccountUnmappedKeys, {})
        st1 == Account_drop_SMR__c(st0)
        st2 == Account_standard_user(st1, "OwnerId", DEFAULT_OWNER_ID)
        st3 == Account_custom_user(st2, "Ops_Agent__c")
        st4 == Account_rename_Ops_Agent__c(st3)
    IN Account_ParentId(st4)

(***************************************************************************)
(* opportunity_mapping_production.py, the body of the chunk loop           *)
(***************************************************************************)
OpportunityUnmappedKeys ==
    {"AccountId", "Primary_Contact__c", "Purchasing_Contact__c", "ContactId", "RecordTypeId"}
OpportunityBlankedKeys == {"Account_RFPD", "Primary_Contact_RFPD", "Purchasing_Contact_RFPD"}

\* STEP 1, AccountId by Account.recordtype.Name: RFPD Account blanked and kept as
\* blanked, Unity and Arrow / Verical set to their constants
Opportunity_gate_AccountId(st) ==
    IF ~({"AccountId", "Account.recordtype.Name"} \subseteq columns_of(st.chunk)) THEN st
    ELSE LET n == Len(st.chunk.rows)
             recordtype_vals == [i \in 1..n |->
                                   upper(strip(st.chunk.rows[i]["Account.recordtype.Name"]))]
             mask_rfpd == [i \in 1..n |-> recordtype_vals[i] = RFPD_ACCOUNT]
             mask_unity == [i \in 1..n |-> recordtype_vals[i] = UNITY]
             mask_arrow == [i \in 1..n |-> recordtype_vals[i] = ARROW_VERICAL]
         IN [st EXCEPT
               !.blanked_data["Account_RFPD"] =
                   IF any(mask_rfpd)
                   THEN @ \o id_and_value(st.chunk, mask_rfpd, column(st.chunk, "AccountId"))
                   ELSE @,
               !.chunk = assign(@, "AccountId",
                   [i \in 1..n |->
                      IF mask_arrow[i] THEN ACCOUNT_ARROW_VERTICAL_ID
                      ELSE IF mask_unity[i] THEN ACCOUNT_UNITY_ID
                      ELSE IF mask_rfpd[i] THEN EMPTY
                      ELSE st.chunk.rows[i]["AccountId"]])]

\* a contact gate that fires where the row's AccountId is blank by now
Opportunity_gate_contact_on_blank_account(st, contact_col, recordtype_col, key) ==
    IF ~({contact_col, recordtype_col} \subseteq columns_of(st.chunk)) THEN st
    ELSE LET n == Len(st.chunk.rows)
             mask_rfpd == [i \in 1..n |-> strip(st.chunk.rows[i]["AccountId"]) = EMPTY]
         IN [st EXCEPT
               !.blanked_data[key] =
                   IF any(mask_rfpd)
                   THEN @ \o id_and_value(st.chunk, mask_rfpd, column(st.chunk, contact_col))
                   ELSE @,
               !.chunk = assign(@, contact_col,
                   [i \in 1..n |-> IF mask_rfpd[i] THEN EMPTY
                                   ELSE st.chunk.rows[i][contact_col]])]

\* STEP 1, a contact column by its record-type column: RFPD Account blanked
Opportunity_gate_contact(st, contact_col, recordtype_col, key) ==
    IF ~({contact_col, recordtype_col} \subseteq columns_of(st.chunk)) THEN st
    ELSE LET n == Len(st.chunk.rows)
             mask_rfpd == [i \in 1..n |->
                             upper(strip(st.chunk.rows[i][recordtype_col])) = RFPD_ACCOUNT]
         IN [st EXCEPT
               !.blanked_data[key] =
                   IF any(mask_rfpd)
                   THEN @ \o id_and_value(st.chunk, mask_rfpd, column(st.chunk, contact_col))
                   ELSE @,
               !.chunk = assign(@, contact_col,
                   [i \in 1..n |-> IF mask_rfpd[i] THEN EMPTY
                                   ELSE st.chunk.rows[i][contact_col]])]

\* "Update original values after blanking", for one column
Opportunity_update_original(st, col) ==
    IF col \notin columns_of(st.chunk) THEN st
    ELSE [st EXCEPT !.original_values =
             [c \in (DOMAIN @) \cup {col} |->
                 IF c = col THEN stripped(column(st.chunk, col)) ELSE @[c]]]

\* STEP 2, one standard user column
Opportunity_standard_user(st, col, default) ==
    IF col \notin columns_of(st.chunk) THEN st
    ELSE LET looked == [i \in 1..Len(st.chunk.rows) |->
                          resolve(frame_user_lookup_dict, st.chunk.rows[i][col], FALSE)]
         IN [st EXCEPT !.chunk =
                assign(@, col, [i \in 1..Len(st.chunk.rows) |->
                                   IF strip(looked[i]) = EMPTY THEN default ELSE looked[i]])]

\* STEP 2, the AccountId lookup; unmapped rows are kept only for a chunk with an Id
Opportunity_lookup_AccountId(st) ==
    IF "AccountId" \notin columns_of(st.chunk) THEN st
    ELSE LET n == Len(st.chunk.rows)
             original == original_get(st, "AccountId")
             looked == [i \in 1..n |->
                          map_account(frame_dict_account, st.chunk.rows[i]["AccountId"])]
             mapped == stripped(looked)
             unmapped_mask == [i \in 1..n |->
                                 /\ original[i] # EMPTY /\ mapped[i] = EMPTY
                                 /\ original[i] \notin
                                       {ACCOUNT_UNITY_ID, ACCOUNT_ARROW_VERTICAL_ID}]
         IN [st EXCEPT !.chunk = assign(@, "AccountId", looked),
                       !.unmapped_data["AccountId"] =
                           IF any(unmapped_mask) /\ "Id" \in columns_of(st.chunk)
                           THEN @ \o id_and_value(st.chunk, unmapped_mask, original)
                           ELSE @]

\* STEP 2, one contact lookup
Opportunity_lookup_contact(st, col) ==
    IF col \notin columns_of(st.chunk) THEN st
    ELSE LET n == Len(st.chunk.rows)
             original == original_get(st, col)
             looked == [i \in 1..n |->
                          resolve(frame_dict_contact, st.chunk.rows[i][col], FALSE)]
             mapped == stripped(looked)
             unmapped_mask == [i \in 1..n |-> original[i] # EMPTY /\ mapped[i] = EMPTY]
         IN [st EXCEPT !.chunk = assign(@, col, looked),
                       !.unmapped_data[col] =
                           IF any(unmapped_mask) /\ "Id" \in columns_of(st.chunk)
                           THEN @ \o id_and_value(st.chunk, unmapped_mask, original)
                           ELSE @]

\* the loop body on a chunk with the columns of the model (the blocks of the columns
\* the chunk lacks are skipped by their "if col in chunk.columns")
opportunity_mapping_production(chunk) ==
    LET st0 == Pass(fillna(chunk), OpportunityUnmappedKeys, OpportunityBlankedKeys)
        st1 == Opportunity_gate_AccountId(st0)
        st2 == Opportunity_gate_contact(st1, "Primary_Contact__c",
                   "Primary_Contact__r.Account.recordtype.Name", "Primary_Contact_RFPD")
        st3 == Opportunity_update_original(
                   Opportunity_update_original(st2, "AccountId"), "Primary_Contact__c")
        st4 == Opportunity_standard_user(st3, "OwnerId", DEFAULT_OWNER_ID)
        st5 == Opportunity_lookup_AccountId(st4)
    IN Opportunity_lookup_contact(st5, "Primary_Contact__c")

(***************************************************************************)
(* messaging_session_mapping_production.py, the body of the chunk loop     *)
(***************************************************************************)
MESSAGING_CHANNEL_ID == <<"0", "M", "j">>

\* chunk["MessagingChannelId"] = MESSAGING_CHANNEL_ID
Messaging_MessagingChannelId(st) ==
    [st EXCEPT !.chunk =
        assign(@, "MessagingChannelId", [i \in 1..Len(st.chunk.rows) |-> MESSAGING_CHANNEL_ID])]

\* the MessagingEndUser lookup, run for a loaded, non-empty dictionary
Messaging_MessagingEndUserId(st) ==
    IF ~("MessagingEndUserId" \in columns_of(st.chunk) /\ frame_dict_messaging_enduser # EmptyDict)
    THEN st
    ELSE LET n == Len(st.chunk.rows)
             original_enduser == stripped(column(st.chunk, "MessagingEndUserId"))
             looked == [i \in 1..n |->
                          resolve(frame_dict_messaging_enduser,
                                  st.chunk.rows[i]["MessagingEndUserId"], FALSE)]
             mapped_enduser == stripped(looked)
             unmapped_mask == [i \in 1..n |->
                                 original_enduser[i] # EMPTY /\ mapped_enduser[i] = EMPTY]
         IN [st EXCEPT !.chunk = assign(@, "MessagingEndUserId", looked),
                       !.unmapped_data["MessagingEndUserId"] =
                           IF any(unmapped_mask)
                           THEN @ \o id_and_value(st.chunk, unmapped_mask, original_enduser)
                           ELSE @]

\* the loop body on a chunk with an Id and without the three user columns
messaging_session_mapping_production(chunk) ==
    LET st0 == Pass(fillna(chunk), {"MessagingEndUserId"}, {})
    IN Messaging_MessagingEndUserId(Messaging_MessagingChannelId(st0))

(***************************************************************************)
(* case_survey_junction_mapping_production.py: the chunk loop, then the    *)
(* cleaning of the mapped file                                             *)
(***************************************************************************)
\* CreatedById / LastModifiedById
Junction_standard_user(st, col) ==
    IF col \notin columns_of(st.chunk) THEN st
    ELSE LET looked == [i \in 1..Len(st.chunk.rows) |->
                          resolve(frame_user_lookup_dict, st.chunk.rows[i][col], FALSE)]
         IN [st EXCEPT !.chunk =
                assign(@, col, [i \in 1..Len(st.chunk.rows) |->
                                   IF strip(looked[i]) = EMPTY
                                   THEN DEFAULT_CREATEDBY_LASTMODIFIED_ID ELSE looked[i]])]

\* the loop body on a chunk without Case__c and Case_Survey__c columns
case_survey_junction_mapping_production(chunk) ==
    Junction_standard_user(Pass(fillna(chunk), {"Case__c", "Case_Survey__c"}, {}), "CreatedById")

DigitVal ==
    ("0" :> 0) @@ ("1" :> 1) @@ ("2" :> 2) @@ ("3" :> 3) @@ ("4" :> 4) @@
    ("5" :> 5) @@ ("6" :> 6) @@ ("7" :> 7) @@ ("8" :> 8) @@ ("9" :> 9)
DigitChar == <<"0", "1", "2", "3", "4", "5", "6", "7", "8", "9">>
IsDigits(s) == s # EMPTY /\ \A i \in 1..Len(s) : s[i] \in DOMAIN DigitVal
RECURSIVE to_int(_)
to_int(s) == IF s = EMPTY THEN 0 ELSE 10 * to_int(SubSeq(s, 1, Len(s) - 1)) + DigitVal[s[Len(s)]]
two_digits(n) == << DigitChar[(n \div 10) + 1], DigitChar[(n % 10) + 1] >>

\* the three fields of a text with exactly two "/" (<< >> for any other text)
date_parts(s) ==
    LET at == {i \in 1..Len(s) : s[i] = "/"}
    IN IF Cardinality(at) # 2 THEN << >>
       ELSE LET a == CHOOSE i \in at : \A j \in at : i <= j
                b == CHOOSE i \in at : \A j \in at : j <= i
            IN << SubSeq(s, 1, a - 1), SubSeq(s, a + 1, b - 1), SubSeq(s, b + 1, Len(s)) >>

\* _looks_like_date, for a stripped text without "-", ".", ":" and "T": the first
\* two DATE_PATTERNS with "/" between the fields and no time of day
looks_like_date(s) ==
    LET p == date_parts(s)
    IN /\ p # << >>
       /\ \A k \in 1..3 : IsDigits(p[k])
       /\ \/ Len(p[1]) \in 1..2 /\ Len(p[2]) \in 1..2 /\ Len(p[3]) \in 2..4
          \/ Len(p[1]) = 4 /\ Len(p[2]) \in 1..2 /\ Len(p[3]) \in 1..2

days_in_month(m, y) ==
    IF m = 2 THEN (IF (y % 4 = 0 /\ y % 100 # 0) \/ y % 400 = 0 THEN 29 ELSE 28)
    ELSE IF m \in {4, 6, 9, 11} THEN 30 ELSE 31

\* pd.to_datetime(s, format="%d/%m/%Y", errors="raise") succeeds
is_dmy(s) ==
    LET p == date_parts(s)
    IN /\ looks_like_date(s)
       /\ Len(p[1]) \in 1..2 /\ Len(p[2]) \in 1..2 /\ Len(p[3]) = 4
       /\ to_int(p[3]) \in 1678..2261
       /\ to_int(p[2]) \in 1..12
       /\ to_int(p[1]) \in 1..days_in_month(to_int(p[2]), to_int(p[3]))

\* normalize_cell, for a cell without "-", ".", ":" and "T" (no ISO text, no time of
\* day to fix): a blank cell becomes "", a text that does not look like a date is
\* kept as it is, a day/month/year date is written as year-month-day.  A date-like
\* text that is no day/month/year date goes to the free-form parser, which is left
\* out here: the cells of the model never reach it.
normalize_cell(val) ==
    LET s == strip(val)
        p == date_parts(s)
    IN CASE val = NaN -> val
         [] val # NaN /\ s = EMPTY -> s
         [] val # NaN /\ s # EMPTY /\ ~looks_like_date(s) -> val
         [] val # NaN /\ is_dmy(s) ->
                p[3] \o <<"-">> \o two_digits(to_int(p[2])) \o <<"-">> \o two_digits(to_int(p[1]))

\* the mapped file read back: pd.read_csv(mapped_output_file, dtype=str)
read_frame(chunk) ==
    [cols |-> chunk.cols,
     rows |-> [i \in 1..Len(chunk.rows) |->
                 [c \in columns_of(chunk) |-> read_cell(chunk.rows[i][c])]]]

\* "Remove completely empty columns": the columns whose cells are all blank go
remove_empty_columns(df) ==
    LET empty == {c \in columns_of(df) : \A i \in 1..Len(df.rows) : strip(df.rows[i][c]) = EMPTY}
    IN [cols |-> SelectSeq(df.cols, LAMBDA c : c \notin empty),
        rows |-> [i \in 1..Len(df.rows) |-> [c \in columns_of(df) \ empty |-> df.rows[i][c]]]]

\* "APPLY CLEANING": read back, drop the empty columns, normalize every cell of
\* every column, rename Id
cleaning(mapped) ==
    LET df0 == fillna(read_frame(mapped))
        df1 == remove_empty_columns(df0)
        df2 == [cols |-> df1.cols,
                rows |-> [i \in 1..Len(df1.rows) |->
                            [c \in columns_of(df1) |-> normalize_cell(df1.rows[i][c])]]]
    IN IF "Id" \in columns_of(df2) THEN rename(df2, "Id", "Legacy_SF_Record_ID__c") ELSE df2

(***************************************************************************)
(* The chunks tried, and the run of one chunk.                             *)
(***************************************************************************)
FrameJobs == {"Account", "Opportunity", "Messaging", "Junction"}

ADate == <<"1", "/", "2", "/", "2", "0", "2", "4">>      \* 1 February 2024

\* the column layouts of a script's source file
FrameLayouts(j) ==
    CASE j = "Account" ->
            { <<"Id", "Name", "SMR__c", "OwnerId", "Ops_Agent__c", "ParentId">>,
              <<"Name", "OwnerId", "Ops_Agent__c", "ParentId">>,
              <<"Id", "SMR__c", "ParentId">> }
      [] j = "Opportunity" ->
            { <<"Id", "Name", "AccountId", "Account.recordtype.Name", "Primary_Contact__c",
                "Primary_Contact__r.Account.recordtype.Name", "OwnerId">> }
      [] j = "Messaging" ->
            { <<"Id", "Name", "MessagingEndUserId">>,
              <<"Id", "MessagingChannelId", "Name", "MessagingEndUserId">> }
      [] j = "Junction" ->
            { <<"Id", "Name", "Comment__c", "CreatedById">> }

\* the cells a column takes as read by pd.read_csv(dtype=str): an empty cell is NaN
FrameCells(j, col) ==
    CASE col = "Id" -> { <<"1">> }
      [] col = "Name" -> IF j = "Junction" THEN { <<"n">>, <<" ", "n">> }
                         ELSE IF j = "Messaging" THEN { NaN, <<"n">> } ELSE { <<"n">> }
      [] col = "SMR__c" -> { <<"s">> }
      [] col = "OwnerId" -> { NaN, <<"A">> }
      [] col = "Ops_Agent__c" -> { NaN, <<"a">>, <<"b">> }
      [] col = "ParentId" -> { <<" ", "A">>, <<"b">> }
      [] col = "AccountId" -> { <<"a">>, <<"b">> }
      [] col = "Account.recordtype.Name" -> { NaN, <<"r", " ", "a">>, UNITY }
      [] col = "Primary_Contact__c" -> { <<"a">>, <<"b">> }
      [] col = "Primary_Contact__r.Account.recordtype.Name" -> { NaN, RFPD_ACCOUNT }
      [] col = "MessagingEndUserId" -> { NaN, <<"a">>, <<"b">> }
      [] col = "MessagingChannelId" -> { <<"c">> }
      [] col = "Comment__c" -> { NaN, <<" ">>, <<"n">>, ADate }
      [] col = "CreatedById" -> { NaN, <<"a">> }

RECURSIVE FrameRows(_, _)
FrameRows(j, cols) ==
    IF cols = << >> THEN { << >> }
    ELSE { (Head(cols) :> v) @@ r : v \in FrameCells(j, Head(cols)), r \in FrameRows(j, Tail(cols)) }

\* the record ids of a file: the row number
with_ids(rows) ==
    [i \in 1..Len(rows) |->
        [c \in DOMAIN rows[i] |-> IF c = "Id" THEN << DigitChar[i + 1] >> ELSE rows[i][c]]]

FrameChunks(j) ==
    UNION { { [cols |-> layout, rows |-> with_ids(rows)] :
                rows \in UNION { [1..m -> FrameRows(j, layout)] : m \in 1..MaxFrameRows } } :
            layout \in FrameLayouts(j) }

\* the loop body of the script
main_chunk(j, chunk) ==
    CASE j = "Account" -> account_mapping_uat(chunk)
      [] j = "Opportunity" -> opportunity_mapping_production(chunk)
      [] j = "Messaging" -> messaging_session_mapping_production(chunk)
      [] j = "Junction" -> case_survey_junction_mapping_production(chunk)

\* the field policies of a script, for the columns of the model
FramePolicies(j) ==
    CASE j = "Account" -> {"OwnerId", "Ops_Agent__c", "ParentId"}
      [] j = "Opportunity" -> {"AccountId", "Primary_Contact__c", "OwnerId"}
      [] j = "Messaging" -> {"MessagingChannelId", "MessagingEndUserId"}
      [] j = "Junction" -> {"CreatedById"}

\* one field's whole policy: its gate, its lookup, its tracking
field_policy(j, f, st) ==
    CASE j = "Account" /\ f = "OwnerId" -> Account_standard_user(st, "OwnerId", DEFAULT_OWNER_ID)
      [] j = "Account" /\ f = "Ops_Agent__c" -> Account_custom_user(st, "Ops_Agent__c")
      [] j = "Account" /\ f = "ParentId" -> Account_ParentId(st)
      [] j = "Opportunity" /\ f = "AccountId" ->
            Opportunity_lookup_AccountId(
                Opportunity_update_original(Opportunity_gate_AccountId(st), "AccountId"))
      [] j = "Opportunity" /\ f = "Primary_Contact__c" ->
            Opportunity_lookup_contact(
                Opportunity_update_original(
                    Opportunity_gate_contact(st, "Primary_Contact__c",
                        "Primary_Contact__r.Account.recordtype.Name", "Primary_Contact_RFPD"),
                    "Primary_Contact__c"),
                "Primary_Contact__c")
      [] j = "Opportunity" /\ f = "OwnerId" ->
            Opportunity_standard_user(st, "OwnerId", DEFAULT_OWNER_ID)
      [] j = "Messaging" /\ f = "MessagingChannelId" -> Messaging_MessagingChannelId(st)
      [] j = "Messaging" /\ f = "MessagingEndUserId" -> Messaging_MessagingEndUserId(st)
      [] j = "Junction" /\ f = "CreatedById" -> Junction_standard_user(st, "CreatedById")

RECURSIVE in_order(_, _, _)
in_order(j, order, st) ==
    IF order = << >> THEN st ELSE in_order(j, Tail(order), field_policy(j, Head(order), st))

\* the chunk with the field policies applied in the given order (and, for Account,
\* the deletion of SMR__c before them and the rename after them)
policies_in_order(j, chunk, order) ==
    LET keys == CASE j = "Account" -> AccountUnmappedKeys
                  [] j = "Opportunity" -> OpportunityUnmappedKeys
                  [] j = "Messaging" -> {"MessagingEndUserId"}
                  [] j = "Junction" -> {"Case__c", "Case_Survey__c"}
        st0 == Pass(fillna(chunk), keys, IF j = "Opportunity" THEN OpportunityBlankedKeys ELSE {})
    IN IF j = "Account"
       THEN Account_rename_Ops_Agent__c(in_order(j, order, Account_drop_SMR__c(st0)))
       ELSE in_order(j, order, st0)

FrameOrders(j) ==
    { o \in [1..Cardinality(FramePolicies(j)) -> FramePolicies(j)] :
        \A a, b \in DOMAIN o : a # b => o[a] # o[b] }

FrameInit ==
    /\ LookupIdle /\ PipelineIdle /\ SplitIdle
    /\ fpc = "start"
    /\ fjob \in FrameJobs
    /\ fin \in FrameChunks(fjob)
    /\ fout = << >> /\ forder = << >> /\ falt = << >>

\* one pass of the chunk loop, up to the chunk's to_csv
MapChunk ==
    /\ fpc = "start"
    /\ \E order \in FrameOrders(fjob) :
          /\ forder' = order
          /\ falt' = policies_in_order(fjob, fin, order)
    /\ fout' = main_chunk(fjob, fin)
    /\ fpc' = "mapped"
    /\ UNCHANGED <<fjob, fin, lvars, pvars, svars>>

\* Case Survey Junction: the cleaning of the mapped file (here of one chunk)
Clean ==
    /\ fpc = "mapped" /\ fjob = "Junction"
    /\ fout' = [fout EXCEPT !.chunk = cleaning(@)]
    /\ fpc' = "cleaned"
    /\ UNCHANGED <<fjob, fin, forder, falt, lvars, pvars, svars>>

FrameNext == MapChunk \/ Clean
FrameSpec == FrameInit /\ [][FrameNext]_vars

(***************************************************************************)
(* Claims about the whole rows of a chunk.                                 *)
(***************************************************************************)
\* what a pass leaves behind: the chunk it writes, the unmapped and blanked records
PassOutcome(st) == <<st.chunk, st.unmapped_data, st.blanked_data>>

\* C23: within a chunk, applying the configured field policies in any order yields
\* the same output rows and the same unmapped (and blanked) entries as the script's
\* own order: every policy reads its gate column, its source value and the record id
\* from what was read, never a value another field's policy has rewritten.
C23_OrderIndependent ==
    fpc = "mapped" => PassOutcome(falt) = PassOutcome(fout)

\* C23 happens: an Opportunity chunk of two rows, the policies applied in an order
\* that is not the script's, with a gate that fired, a blanked contact and an
\* unmapped account
C23_Witness ==
    /\ fpc = "mapped" /\ fjob = "Opportunity" /\ Len(fin.rows) = 2
    /\ forder = <<"Primary_Contact__c", "OwnerId", "AccountId">>
    /\ fout.unmapped_data["AccountId"] # << >>
    /\ fout.blanked_data["Primary_Contact_RFPD"] # << >>
    /\ \E i \in 1..2 : fout.chunk.rows[i]["AccountId"] = ACCOUNT_UNITY_ID
    /\ PassOutcome(falt) = PassOutcome(fout)

\* the fields a script has a policy for, and the renames it makes before it writes
\* the mapped file (the Junction's rename of Id is made when the file is cleaned)
ConfiguredFields(j) ==
    CASE j = "Account" -> {"OwnerId", "CreatedById", "LastModifiedById", "Ops_Agent__c",
                           "Expediter__c", "ParentId", "Primary_Supplier_Contact__c",
                           "RecordTypeId"}
      [] j = "Opportunity" -> {"OwnerId", "CreatedById", "LastModifiedById", "AccountId",
                               "Primary_Contact__c", "Purchasing_Contact__c", "ContactId",
                               "RecordTypeId"}
      [] j = "Messaging" -> {"OwnerId", "CreatedById", "LastModifiedById",
                             "MessagingChannelId", "MessagingEndUserId"}
      [] j = "Junction" -> {"CreatedById", "LastModifiedById", "Case__c", "Case_Survey__c"}
Renamed(j, c) ==
    IF j = "Account" /\ c = "Ops_Agent__c" THEN "SMR__c"
    ELSE IF j = "Junction" /\ fpc = "cleaned" /\ c = "Id" THEN "Legacy_SF_Record_ID__c"
    ELSE c
\* the fields of the input without a policy and without a rename
PlainFields(j, inp) == {c \in columns_of(inp) : c \notin ConfiguredFields(j) /\ Renamed(j, c) = c}
ChunkWritten == fpc \in {"mapped", "cleaned"}

\* C22: every field that has no configured policy and no configured rename has, in
\* each row of every output of a mapping job, exactly its input value (a missing
\* cell as the empty string), and the output has the same set of fields as the input
\* apart from the configured renames.
C22_PlainFieldsKept ==
    ChunkWritten =>
        LET inp == fillna(fin)
            outp == fout.chunk
        IN /\ Len(outp.rows) = Len(inp.rows)
           /\ columns_of(outp) = {Renamed(fjob, c) : c \in columns_of(inp)}
           /\ \A c \in PlainFields(fjob, inp) :
                 /\ c \in columns_of(outp)
                 /\ \A i \in 1..Len(inp.rows) : outp.rows[i][c] = inp.rows[i][c]

\* what the scripts do keep: in the mapped file every such field other than a source
\* SMR__c of Account has its input value, and the fields are those of the input
\* without that SMR__c, with the rename, and with MessagingChannelId for Messaging;
\* in the cleaned Junction file a field is there unless all its cells are blank, and
\* holds the normalized input value
C22_PlainFieldsKeptButFor ==
    ChunkWritten =>
        LET inp == fillna(fin)
            outp == fout.chunk
            dropped == IF fjob = "Account" THEN {"SMR__c"} ELSE {}
            added == IF fjob = "Messaging" THEN {"MessagingChannelId"} ELSE {}
            blank == {c \in columns_of(inp) :
                         \A i \in 1..Len(inp.rows) : strip(inp.rows[i][c]) = EMPTY}
        IN /\ Len(outp.rows) = Len(inp.rows)
           /\ fpc = "mapped" =>
                 /\ columns_of(outp) =
                        {Renamed(fjob, c) : c \in columns_of(inp) \ dropped} \cup added
                 /\ \A c \in PlainFields(fjob, inp) \ dropped :
                       \A i \in 1..Len(inp.rows) : outp.rows[i][c] = inp.rows[i][c]
           /\ fpc = "cleaned" =>
                 /\ \A c \in PlainFields(fjob, inp) :
                       /\ c \in columns_of(outp) <=> c \notin blank
                       /\ c \in columns_of(outp) =>
                             \A i \in 1..Len(inp.rows) :
                                 outp.rows[i][c] = normalize_cell(inp.rows[i][c])

\* C22's failing case: the cleaned Junction file holds 2024-02-01 in Comment__c, a
\* field without policy or rename, where the source row holds 1/2/2024, and " n" of
\* the Name column is kept as it is
C22_CleaningRewritesPlainField ==
    /\ fpc = "cleaned" /\ fjob = "Junction" /\ Len(fin.rows) = 1
    /\ fin.rows[1]["Comment__c"] = ADate /\ fin.rows[1]["Name"] = <<" ", "n">>
    /\ fout.chunk.rows[1]["Comment__c"] = <<"2", "0", "2", "4", "-", "0", "2", "-", "0", "1">>
    /\ fout.chunk.rows[1]["Name"] = <<" ", "n">>

\* the cleaned Junction file has lost a column whose cells are all blank
CleaningDropsBlankField ==
    /\ fpc = "cleaned" /\ fjob = "Junction"
    /\ "Comment__c" \in columns_of(fin) /\ "Comment__c" \notin columns_of(fout.chunk)

\* the mapped Account file holds the mapped Ops_Agent__c in SMR__c, not the source's SMR__c
SourceSMRReplaced ==
    /\ fpc = "mapped" /\ fjob = "Account" /\ Len(fin.rows) = 1
    /\ {"SMR__c", "Ops_Agent__c"} \subseteq columns_of(fin)
    /\ fin.rows[1]["SMR__c"] = <<"s">> /\ fin.rows[1]["Ops_Agent__c"] = <<"a">>
    /\ fout.chunk.rows[1]["SMR__c"] = <<"x">>

\* the mapped Account file has no SMR__c although the source has one
SourceSMRDropped ==
    /\ fpc = "mapped" /\ fjob = "Account"
    /\ "SMR__c" \in columns_of(fin) /\ "SMR__c" \notin columns_of(fout.chunk)

\* the mapped Messaging file has a MessagingChannelId column the source lacks
ChannelColumnAdded ==
    /\ fpc = "mapped" /\ fjob = "Messaging"
    /\ "MessagingChannelId" \notin columns_of(fin)
    /\ "MessagingChannelId" \in columns_of(fout.chunk)

====
